---- MODULE Spec2Model ----
(***************************************************************************)
(* Laravel Toolkit (VS Code extension): the generation commands, their     *)
(* prompts, the files they write and the shared registration files they    *)
(* edit.                                                                   *)
(*                                                                         *)
(* Text is a sequence of tokens.  An entity name is a sequence of          *)
(* capitalised words (<<"Blog","Post">> is BlogPost); the literal parts of *)
(* the templates are single tokens, and every token that the code searches *)
(* for, splits on or counts ("}", "\n", "import ", ...) is a token of its  *)
(* own, so that includes/indexOf/split are computed as the code computes   *)
(* them.                                                                   *)
(***************************************************************************)
EXTENDS Integers, Sequences, FiniteSets, TLC

\* ---------------------------------------------------------------- bounds
\* commands started in one behaviour, clock ticks, commands in progress at once
MaxRuns == 2
MaxTime == 1
MaxCmds == 2

NL == "\n"

\* ------------------------------------------------------- text primitives
RECURSIVE Concat(_)
Concat(ss) == IF ss = <<>> THEN <<>> ELSE Head(ss) \o Concat(Tail(ss))

\* String.prototype.includes
Includes(content, marker) ==
  \E i \in 1..(Len(content) - Len(marker) + 1) :
     SubSeq(content, i, i + Len(marker) - 1) = marker

\* number of (possibly overlapping) occurrences of marker in content
CountOcc(content, marker) ==
  Cardinality({ i \in 1..(Len(content) - Len(marker) + 1) :
                  SubSeq(content, i, i + Len(marker) - 1) = marker })

\* String.prototype.indexOf / lastIndexOf for a one-token needle; 0-based
\* offsets in tokens, -1 when absent
IndexOfTok(content, tok) ==
  IF \E i \in 1..Len(content) : content[i] = tok
    THEN (CHOOSE i \in 1..Len(content) :
            content[i] = tok /\ \A j \in 1..(i-1) : content[j] # tok) - 1
    ELSE -1

LastIndexOfTok(content, tok) ==
  IF \E i \in 1..Len(content) : content[i] = tok
    THEN (CHOOSE i \in 1..Len(content) :
            content[i] = tok /\ \A j \in (i+1)..Len(content) : content[j] # tok) - 1
    ELSE -1

\* String.prototype.slice(0, k) and slice(k): a negative k counts from the end
SliceIdx(content, k) ==
  IF k < 0 THEN (IF Len(content) + k < 0 THEN 0 ELSE Len(content) + k)
  ELSE IF k > Len(content) THEN Len(content) ELSE k

InsertAt(content, k, block) ==
  SubSeq(content, 1, SliceIdx(content, k)) \o block \o
  SubSeq(content, SliceIdx(content, k) + 1, Len(content))

\* content.split("\n") and lines.join("\n")
RECURSIVE SplitOn(_, _)
SplitOn(content, sep) ==
  IF IndexOfTok(content, sep) = -1 THEN << content >>
  ELSE << SubSeq(content, 1, IndexOfTok(content, sep)) >> \o
       SplitOn(SubSeq(content, IndexOfTok(content, sep) + 2, Len(content)), sep)

RECURSIVE JoinWith(_, _)
JoinWith(parts, sep) ==
  IF parts = <<>> THEN <<>>
  ELSE IF Len(parts) = 1 THEN parts[1]
  ELSE parts[1] \o << sep >> \o JoinWith(Tail(parts), sep)

\* String.prototype.trimEnd / trim over the white-space tokens
IsSpace(tok) == tok \in { NL, " " }

RECURSIVE TrimEnd(_)
TrimEnd(content) ==
  IF content # <<>> /\ IsSpace(content[Len(content)])
    THEN TrimEnd(SubSeq(content, 1, Len(content) - 1))
    ELSE content

RECURSIVE TrimStart(_)
TrimStart(content) ==
  IF content # <<>> /\ IsSpace(content[1]) THEN TrimStart(Tail(content)) ELSE content

Trim(content) == TrimEnd(TrimStart(content))

\* ----------------------------------------------------- name transformer
Words == { "Blog", "Post" }

ToLower(w) == CASE w = "Blog" -> "blog" [] w = "Post" -> "post" [] OTHER -> w

\* entity names the prompts accept (PascalCase); Post is a suffix of BlogPost
Names == { << "Post" >>, << "Blog", "Post" >> }

\* str.replace(/([a-z])([A-Z])/g, "$1<sep>$2").toLowerCase(): a separator at
\* every lower-to-upper boundary, that is between two words
RECURSIVE JoinLower(_, _)
JoinLower(name, sep) ==
  IF name = <<>> THEN <<>>
  ELSE IF Len(name) = 1 THEN << ToLower(name[1]) >>
  ELSE << ToLower(name[1]), sep >> \o JoinLower(Tail(name), sep)

toKebabCase(name) == JoinLower(name, "-")

toSnakeCase(name) == JoinLower(name, "_")

\* a PascalCase name has no "-" or "_" and starts with a capital
toPascalCase(name) == name


\* ------------------------------------------------ shared registration files
ApiRoutesPath == << "routes/api.php" >>
WebRoutesPath == << "routes/web.php" >>
VueRouterPath == << "resources/js/router.js" >>
ReactRouterPath == << "resources/js/router.jsx" >>
AppJsPath == << "resources/js/app.js" >>
ProviderPath == << "app/Providers/RouteServiceProvider.php" >>
PackageJsonPath == << "package.json" >>

\* crud-spa.js createAPIRoutes: the appended block and its presence check
SpaApiRouteLine(name) ==
  << "Route::apiResource('" >> \o toKebabCase(name) \o
  << "s', ", "App\\Http\\Controllers\\Api\\" >> \o name \o << "Controller::class);" >>

SpaApiRouteCode(name) ==
  << NL, "// " >> \o name \o << " API Routes", NL >> \o SpaApiRouteLine(name) \o << NL >>

SpaApiRoutesContent(content, name) ==
  IF ~Includes(content, name \o << " API Routes" >>)
    THEN content \o SpaApiRouteCode(name)
    ELSE content

\* part_003 createAPIRoutes: the same marker, a versioned route group; version is
\* "" (no versioning), "v1" or "v2"
VersionUpper(version) == CASE version = "v1" -> "V1" [] version = "v2" -> "V2" [] OTHER -> version

ApiRouteGroup(name, version) ==
  << NL, "// " >> \o name \o << " API Routes", NL, "Route::prefix('" >> \o
  (IF version = "" THEN <<>> ELSE << "/", version >>) \o
  << "')->group(function () {", NL, "    ", "Route::apiResource('" >> \o
  toKebabCase(name) \o << "s', ", "\\App\\Http\\Controllers\\Api\\" >> \o
  (IF version = "" THEN <<>> ELSE << VersionUpper(version), "\\" >>) \o name \o
  << "Controller::class);", NL, "});", NL >>

ApiGenRoutesContent(content, name, version) ==
  IF ~Includes(content, name \o << " API Routes" >>)
    THEN content \o ApiRouteGroup(name, version)
    ELSE content

\* views.js createTraditionalRoutes: the route line is its own marker
RouteLine(name, type) ==
  << (IF type = "api" THEN "Route::apiResource('" ELSE "Route::resource('") >> \o
  toKebabCase(name) \o << "', " >> \o name \o << "Controller::class);" >>

UseStatement(name) ==
  << "use ", "App\\Http\\Controllers\\" >> \o name \o << "Controller", ";" >>

\* end (exclusive, in tokens) of the first match of /(use [^;]+;[\s\n]*)+/
\* that starts at token i: statements "use ...;" and the white space after
RECURSIVE UseRunEnd(_, _)
UseRunEnd(content, i) ==
  IF i <= Len(content) /\ content[i] = "use "
       /\ \E j \in (i+2)..Len(content) : content[j] = ";"
    THEN LET semi == CHOOSE j \in (i+2)..Len(content) :
                       content[j] = ";" /\ \A k \in (i+1)..(j-1) : content[k] # ";"
             RECURSIVE SkipSpace(_)
             SkipSpace(k) == IF k <= Len(content) /\ IsSpace(content[k])
                               THEN SkipSpace(k + 1) ELSE k
         IN  UseRunEnd(content, SkipSpace(semi + 1))
    ELSE i

\* routeContent.replace(/(use [^;]+;[\s\n]*)+/, `$&${useStatement}\n`)
AddUseStatement(content, name) ==
  IF IndexOfTok(content, "use ") = -1 THEN content
  ELSE LET first == IndexOfTok(content, "use ") + 1
           stop == UseRunEnd(content, first)
       IN  IF stop = first THEN content
           ELSE InsertAt(content, stop - 1, UseStatement(name) \o << NL >>)

TraditionalRoutesContent(content, name, type) ==
  IF ~Includes(content, RouteLine(name, type))
    THEN (IF ~Includes(content, UseStatement(name))
            THEN AddUseStatement(content, name) ELSE content)
         \o << NL >> \o RouteLine(name, type) \o << NL >>
    ELSE content


\* ------------------------------------------------------ frontend routers
\* the four route objects / <Route> lines of one entity
RouteShapes ==
  << [suffix |-> <<>>, rname |-> "-list", comp |-> "List"],
     [suffix |-> << "/create" >>, rname |-> "-create", comp |-> "Form"],
     [suffix |-> << "/:id" >>, rname |-> "-show", comp |-> "Show"],
     [suffix |-> << "/:id/edit" >>, rname |-> "-edit", comp |-> "Form"] >>

VueRouteObject(name, sh) ==
  << NL, "   ", " ", "{", NL, "        path: '/" >> \o toKebabCase(name) \o << "s" >> \o
  sh.suffix \o << "',", NL, "        name: '" >> \o toKebabCase(name) \o
  << sh.rname, "',", NL, "        component: () => import('@/components/" >> \o
  name \o << "/" >> \o name \o << sh.comp, ".vue'),", NL, "   ", " ", "}", "," >>

\* crud-spa.js registerVueRoutes: routeCode
VueRouteCode(name) ==
  << NL, "    // " >> \o name \o << " Routes" >> \o
  Concat([k \in 1..4 |-> VueRouteObject(name, RouteShapes[k])])

\* content.match(/const routes = \[([\s\S]*?)\]/)
RoutesArrayMatch(content) ==
  \E i \in 1..Len(content) : \E j \in (i+1)..Len(content) :
     content[i] = "const routes = [" /\ content[j] = "]"

\* crud-spa.js registerVueRoutes: whether it writes, and what
VueRouterWrites(content, name) ==
  ~Includes(content, name \o << " Routes" >>) /\ RoutesArrayMatch(content)

VueRouterContent(content, name) ==
  IF VueRouterWrites(content, name)
    THEN InsertAt(content, LastIndexOfTok(content, "}") - 1, VueRouteCode(name))
    ELSE content

ReactRouteElement(name, sh) ==
  << NL, "            ", "<Route path=\"/" >> \o toKebabCase(name) \o << "s" >> \o
  sh.suffix \o << "\" element={<" >> \o name \o << sh.comp, " />} />" >>

\* crud-spa.js registerReactRoutes: routeCode and importCode
ReactRouteCode(name) ==
  << NL, "            ", "{/* " >> \o name \o << " Routes", " */}" >> \o
  Concat([k \in 1..4 |-> ReactRouteElement(name, RouteShapes[k])])

ReactImportLine(name, comp) ==
  << "import " >> \o name \o << comp, " from ", "'@/components/" >> \o name \o
  << "/" >> \o name \o << comp, "'", ";", NL >>

ReactImportCode(name) ==
  ReactImportLine(name, "List") \o ReactImportLine(name, "Form") \o
  ReactImportLine(name, "Show")

\* last 0-based offset at which needle occurs in content, -1 when it does not
LastIndexOfSeq(content, needle) ==
  LET occ == { i \in 1..(Len(content) - Len(needle) + 1) :
                 SubSeq(content, i, i + Len(needle) - 1) = needle }
  IN  IF occ = {} THEN -1 ELSE (CHOOSE i \in occ : \A j \in occ : j <= i) - 1

\* content.match(/import.*from.*;\n/): the text of the first match, <<>> when
\* there is none.  "." stops at a line end, so the match lies in one line:
\* from an "import " over a " from " to the ";" that ends the line
LineEnd(content, i) ==
  LET ends == { e \in i..Len(content) : content[e] = NL }
  IN  IF ends = {} THEN 0 ELSE CHOOSE e \in ends : \A f \in ends : e <= f

ImportMatch(content) ==
  LET starts == { i \in { k \in 1..Len(content) : content[k] = "import " } :
                    /\ LineEnd(content, i) > i + 2
                    /\ content[LineEnd(content, i) - 1] = ";"
                    /\ \E q \in (i + 1)..(LineEnd(content, i) - 2) : content[q] = " from " }
  IN  IF starts = {} THEN <<>>
      ELSE LET i == CHOOSE a \in starts : \A b \in starts : a <= b
           IN  SubSeq(content, i, LineEnd(content, i))

\* content.match(/<Routes>([\s\S]*?)<\/Routes>/)
RoutesElementMatch(content) ==
  \E i \in 1..Len(content) : \E j \in (i+1)..Len(content) :
     content[i] = "<Routes>" /\ content[j] = "</Routes>"

\* content.lastIndexOf("</Route>") + "</Route>".length, in tokens; without a
\* "</Route>" the sum is 7 characters, the length of a leading "import "
AfterLastRouteClose(content) ==
  IF LastIndexOfTok(content, "</Route>") # -1
    THEN LastIndexOfTok(content, "</Route>") + 1
    ELSE IF content # <<>> /\ content[1] = "import " THEN 1 ELSE 0

ReactWithImports(content, name) ==
  IF ImportMatch(content) # <<>>
    THEN InsertAt(content,
                  LastIndexOfSeq(content, ImportMatch(content)) + Len(ImportMatch(content)),
                  ReactImportCode(name))
    ELSE content

ReactWithRoutes(content, name) ==
  IF RoutesElementMatch(content)
    THEN InsertAt(content, AfterLastRouteClose(content), ReactRouteCode(name))
    ELSE content

\* crud-spa.js registerReactRoutes: it writes whenever the marker is absent
ReactRouterWrites(content, name) == ~Includes(content, name \o << " Routes" >>)

ReactRouterContent(content, name) ==
  IF ReactRouterWrites(content, name)
    THEN ReactWithRoutes(ReactWithImports(content, name), name)
    ELSE content

\* --------------------------------------------------------------- app.js
\* views.js importComponentsToAppJS: importStatements
AppImportStatement(name, comp, framework) ==
  << "import " >> \o name \o << comp, " from ", "'./Components/" >> \o
  toPascalCase(name) \o << "/", comp >> \o
  (IF framework = "vue" THEN << ".vue" >> ELSE <<>>) \o << "'", ";", NL >>

AppImportStatements(name, framework) ==
  IF framework \in { "react", "vue" }
    THEN << AppImportStatement(name, "Index", framework),
            AppImportStatement(name, "Form", framework) >>
    ELSE <<>>

\* the index of the last line that starts with "import " (0 when none does)
LastImportLine(lines) ==
  LET imp == { i \in 1..Len(lines) : lines[i] # <<>> /\ lines[i][1] = "import " }
  IN  IF imp = {} THEN 0 ELSE (CHOOSE i \in imp : \A j \in imp : j <= i) - 1

\* lines.splice(k, 0, item)
Splice(lines, k, item) ==
  SubSeq(lines, 1, SliceIdx(lines, k)) \o << item >> \o
  SubSeq(lines, SliceIdx(lines, k) + 1, Len(lines))

RECURSIVE AddImports(_, _, _, _)
AddImports(content, lines, last, stmts) ==
  IF stmts = <<>> THEN lines
  ELSE IF ~Includes(content, Trim(Head(stmts)))
    THEN AddImports(content, Splice(lines, last + 1, Head(stmts)), last + 1, Tail(stmts))
    ELSE AddImports(content, lines, last, Tail(stmts))

\* views.js importComponentsToAppJS: the content it writes (it always writes)
AppJsContent(content, name, framework) ==
  JoinWith(AddImports(content, SplitOn(content, NL),
                      LastImportLine(SplitOn(content, NL)),
                      AppImportStatements(name, framework)), NL)


\* ------------------------------------------- RouteServiceProvider, requires
\* routes.js createRouteFile: path.relative(rootPath, filePath)
RouteFolder(routeType) ==
  IF routeType \in { "api", "admin", "auth", "protected", "public" } THEN routeType ELSE "web"

ModuleRoutePath(moduleName, routeType) ==
  << "routes/modules/", RouteFolder(routeType), "/" >> \o toKebabCase(moduleName) \o << ".php" >>

\* routes.js createRouteServiceProvider: the file it writes
ProviderTemplate ==
  << "<?php", NL, "class RouteServiceProvider extends ServiceProvider", NL, "{", NL,
     "    ", "public function boot()", ": void", NL, "    ", "{", NL,
     "        $this->configureRateLimiting();", NL, "        ",
     "$this->routes(function () {", NL,
     "            Route::middleware('api')->prefix('api')->group(base_path('routes/api.php'));", NL,
     "            $this->", "loadModularRoutes", "();", NL, "        ", "}", ");", NL,
     "    ", "}", NL, "    protected function ", "loadModularRoutes", "(): void", NL,
     "    ", "{", NL, "    ", "}", NL, "}", NL >>

\* /public function boot\(\)[^{]*\{([^}]+)\}/
BootMethodMatch(content) ==
  \E i \in 1..Len(content) : \E j \in (i+1)..Len(content) : \E k \in (j+2)..Len(content) :
     /\ content[i] = "public function boot()"
     /\ content[j] = "{" /\ \A m \in (i+1)..(j-1) : content[m] # "{"
     /\ content[k] = "}"

IncludeStatement(routeFilePath) ==
  << "$this->routes(function () {", NL, "            require base_path('" >> \o
  routeFilePath \o << "');", NL, "        ", "}", ");" >>

\* routes.js updateRouteServiceProvider on an existing provider: "skip" when
\* the path is present, "warn" without a boot() method, else "write"
ProviderOutcome(content, routeFilePath) ==
  IF Includes(content, routeFilePath) THEN "skip"
  ELSE IF ~BootMethodMatch(content) THEN "warn"
  ELSE "write"

\* content.replace(/(\$this->routes\(function \(\) \{)/, `$1${comment}${include}\n`)
ProviderContent(content, moduleName, routeType, routeFilePath) ==
  IF ProviderOutcome(content, routeFilePath) = "write"
       /\ IndexOfTok(content, "$this->routes(function () {") # -1
    THEN InsertAt(content, IndexOfTok(content, "$this->routes(function () {") + 1,
                  << NL, "        // " >> \o toPascalCase(moduleName) \o
                  << " ", routeType, " routes", NL >> \o
                  IncludeStatement(routeFilePath) \o << NL >>)
    ELSE content

\* routes.js addRequireToMainRouteFile: path.relative(routesPath, routeFilePath)
\* resolves the root-relative routeFilePath against the working directory of
\* the extension host; CwdFromRoutes is the way from routes/ to that directory
CwdFromRoutes == "<routes/ -> cwd>/"

RequireStatement(routeFilePath) ==
  << "require __DIR__.'/", CwdFromRoutes >> \o routeFilePath \o << "';", NL >>

MainRouteFile(routeType) == IF routeType = "api" THEN ApiRoutesPath ELSE WebRoutesPath

RequireWrites(content, routeFilePath) ==
  ~Includes(content, Trim(RequireStatement(routeFilePath)))

RequireContent(content, moduleName, routeFilePath) ==
  IF RequireWrites(content, routeFilePath)
    THEN TrimEnd(content) \o << NL, NL, "// " >> \o toPascalCase(moduleName) \o
         << " module routes", NL >> \o RequireStatement(routeFilePath)
    ELSE content

\* ------------------------------------------------------ project layouts
\* the workspaces a command can be run in
Projects == { "standard", "objectRoutes", "bare", "readonly" }

StdRoutesPhp ==
  << "<?php", NL, NL, "use ", "Illuminate\\Support\\Facades\\Route", ";", NL, NL,
     "Route::get('/', fn () => view('welcome'));", NL >>

StdVueRouter ==
  << "import ", "{ createRouter, createWebHistory }", " from ", "'vue-router'", ";", NL, NL,
     "const routes = [", NL, "]", ";", NL, NL, "export default createRouter(", "{", NL,
     "    history: createWebHistory(),", NL, "    routes,", NL, "}", ");", NL >>

\* a router.js whose routes live elsewhere: no routes array
PlainVueRouter ==
  << "import ", "routes", " from ", "'./routes'", ";", NL, NL,
     "export default createRouter(", "{", " ", "routes", " ", "}", ");", NL >>

StdReactRouter ==
  << "import ", "React", " from ", "'react'", ";", NL,
     "import ", "{ BrowserRouter, Routes, Route }", " from ", "'react-router-dom'", ";", NL, NL,
     "export default function AppRouter() {", NL, "    return (", NL, "        ", "<Routes>", NL,
     "            ", "<Route path=\"/\" element={<Layout />}>", NL, "            ", "</Route>", NL,
     "        ", "</Routes>", NL, "    );", NL, "}", NL >>

\* a router.jsx in the route-object style that addReactRoute edits
ObjectReactRouter ==
  << "import ", "{ createBrowserRouter }", " from ", "'react-router-dom'", ";", NL, NL,
     "const routes = [", NL, "]", ";", NL, NL,
     "export default createBrowserRouter(routes);", NL >>

StdAppJs ==
  << "import ", "'./bootstrap'", ";", NL, NL, "console.log('ready');", NL >>

\* package.json as detectFrontendFramework reads it
PackageJson(project) ==
  CASE project = "standard" -> << "{ \"dependencies\": { \"vue\": \"^3\" } }" >>
    [] project = "objectRoutes" -> << "{ \"dependencies\": { \"react\": \"^18\" } }" >>
    [] OTHER -> << "{ not json" >>

InitialFiles(project) ==
  CASE project = "bare" -> << >>
    [] project = "objectRoutes" ->
         (ApiRoutesPath :> StdRoutesPhp) @@ (WebRoutesPath :> StdRoutesPhp) @@
         (VueRouterPath :> PlainVueRouter) @@ (ReactRouterPath :> ObjectReactRouter) @@
         (AppJsPath :> StdAppJs) @@ (PackageJsonPath :> PackageJson(project))
    [] OTHER ->
         (ApiRoutesPath :> StdRoutesPhp) @@ (WebRoutesPath :> StdRoutesPhp) @@
         (VueRouterPath :> StdVueRouter) @@ (ReactRouterPath :> StdReactRouter) @@
         (AppJsPath :> StdAppJs) @@ (ProviderPath :> ProviderTemplate) @@
         (PackageJsonPath :> PackageJson(project))


\* ------------------------------------------------------------- the state
VARIABLES
  project,   \* the workspace the extension runs in (never changes)
  fs,        \* the files of the workspace: path -> content
  now,       \* the clock, in the unit of the migration timestamps
  started,   \* commands started so far
  run,       \* the command callbacks in progress, one record per slot
  calls,     \* how often each registration function ran to its end: <<fn, name>> -> count
  fld        \* the field pipeline of a generator: the text entered, the descriptors
             \* parsed or built from it and the lines emitted for them

vars == << project, fs, now, started, run, calls, fld >>

Slots == 1..MaxCmds

\* what a dismissed prompt resolves to
Undefined == << "<undefined>" >>

\* !value for a prompt result
Falsy(x) == x = Undefined \/ x = <<>>

\* raw answers to the "Model fields" prompts
FieldInputs ==
  { << "title", ":", "string" >>,
    << "title", ",", "price", ":", "decimal" >> }

Idle ==
  [ cmd |-> "", pc |-> "idle", waiting |-> FALSE, name |-> <<>>, fields |-> <<>>,
    opt |-> "", comps |-> {}, version |-> "", auth |-> "", framework |-> "",
    msgs |-> {}, wrote |-> {}, execs |-> 0, ran |-> <<>>,
    dismissed |-> FALSE, cancelledAt |-> "", afterCancel |-> FALSE,
    attempted |-> {}, failed |-> {}, reported |-> {} ]

\* no field pipeline is under way
NoLines == [ schema |-> <<>>, create |-> <<>>, update |-> <<>>, input |-> <<>>, cast |-> <<>> ]

NoField ==
  [ gen |-> "", pc |-> "idle", input |-> <<>>, fields |-> <<>>, field |-> <<>>,
    precision |-> <<>>, scale |-> <<>>, cascade |-> "", picked |-> <<>>,
    type |-> "", table |-> <<>>, asked |-> "", options |-> {}, out |-> NoLines,
    up |-> <<>>, dismissed |-> FALSE, specified |-> <<>> ]

Exists(p) == p \in DOMAIN fs

\* a write that leaves an existing file as it is
WriteToKeep(f, p, c) == IF p \in DOMAIN f THEN f ELSE (p :> c) @@ f

\* fs.writeFileSync throws on a path the project does not let us write:
\* app/Models is read-only in the "readonly" project
Unwritable(p) == project = "readonly" /\ p[1] = "app/Models/"

WriteTo(f, p, c) == (p :> c) @@ f

\* fs.writeFileSync of each <<path, content>> in turn, up to the first throw
RECURSIVE WriteAll(_, _)
WriteAll(f, writes) ==
  IF writes = <<>> THEN [fs |-> f, threw |-> FALSE, wrote |-> {}]
  ELSE IF Unwritable(writes[1][1]) THEN [fs |-> f, threw |-> TRUE, wrote |-> {}]
  ELSE LET rest == WriteAll(WriteTo(f, writes[1][1], writes[1][2]), Tail(writes))
       IN  [rest EXCEPT !.wrote = @ \cup { writes[1][1] }]

NoWrite == [fs |-> fs, threw |-> FALSE, wrote |-> {}]

\* the command shows a prompt and waits for its answer
Shown(r, pc) ==
  [r EXCEPT !.pc = pc, !.waiting = TRUE, !.afterCancel = @ \/ r.dismissed]

\* the command goes on, synchronously, with the step pc
Goto(r, pc) == [r EXCEPT !.pc = pc, !.waiting = FALSE]

\* the command callback returns
Return(r) == [r EXCEPT !.pc = "done", !.waiting = FALSE]

\* the user dismissed the prompt the command waits at; cancelledAt keeps the
\* first prompt that was dismissed
Dismiss(r) ==
  [r EXCEPT !.dismissed = TRUE,
            !.cancelledAt = IF r.dismissed THEN @ ELSE r.pc]

\* a notification of the given kind is shown ("" stands for none)
Message(r, kind) == IF kind = "" THEN r ELSE [r EXCEPT !.msgs = @ \cup { kind }]

\* catch (error) { showErrorMessage(error.message) } for the throw of step
Caught(r, step) == [Message(r, "error") EXCEPT !.reported = @ \cup { step }]

\* bookkeeping of an artifact step that ran with outcome out
Did(r, step, out) ==
  [r EXCEPT !.attempted = @ \cup { step },
            !.failed = IF out.threw THEN @ \cup { step } ELSE @,
            !.wrote = @ \cup out.wrote,
            !.afterCancel = @ \/ (r.dismissed /\ out.wrote # {})]

Counted(fn, name) ==
  [calls EXCEPT ![<< fn, name >>] = IF @ < 2 THEN @ + 1 ELSE @]

\* JavaScript runs a callback to its next await: slot i takes a step only
\* while every other callback is suspended at a prompt or an external command
MayRun(i) == \A j \in Slots \ { i } : run[j].pc \in { "idle", "done" } \/ run[j].waiting

Free(i) == run[i].pc \in { "idle", "done" }

Set(i, r) == run' = [run EXCEPT ![i] = r] /\ fld' = fld

\* ------------------------------------------------------- field mini-language
\* crud-spa.js parseFields: split(","), then trim().split(":"), type "string"
\* when the clause has no ":"
ParseClause(clause) ==
  LET parts == SplitOn(Trim(clause), ":")
  IN  [ name |-> Trim(parts[1]),
        type |-> IF Len(parts) >= 2 THEN Trim(parts[2]) ELSE << "string" >> ]

parseFields(fieldsString) ==
  LET clauses == SplitOn(fieldsString, ",")
  IN  [k \in 1..Len(clauses) |-> ParseClause(clauses[k])]

\* the text of a generated per-artifact file: the template that was filled in
\* and the values it was filled with
RECURSIVE FieldText(_)
FieldText(fields) ==
  IF fields = <<>> THEN <<>>
  ELSE << "[" >> \o fields[1].name \o << ":" >> \o fields[1].type \o << "]" >> \o
       FieldText(Tail(fields))

Rendered(template, name, fields) == << template >> \o name \o FieldText(fields)


\* -------------------------------------------------- lifecycle of a command
Commands ==
  { "generateVueCRUD", "generateReactCRUD", "generateAPI", "generateCRUD",
    "makeModel", "makeController", "generateMigration", "generateRouteFile",
    "generateResourceRoutes" }

FirstPrompt(c) ==
  CASE c \in { "generateVueCRUD", "generateReactCRUD" } -> "spa.modelName"
    [] c = "generateAPI" -> "api.modelName"
    [] c = "generateCRUD" -> "crud.modelName"
    [] c = "makeModel" -> "makeModel.modelName"
    [] c = "generateMigration" -> "migration.migrationType"
    [] c = "generateRouteFile" -> "routeFile.moduleName"
    [] c = "generateResourceRoutes" -> "resource.moduleName"
    [] c = "makeController" -> "makeController.controllerName"
    [] OTHER -> "done"

RegFns ==
  { "spa.createAPIRoutes", "registerVueRoutes", "registerReactRoutes",
    "api.createAPIRoutes", "createTraditionalRoutes", "updateRouteServiceProvider",
    "addRequireToMainRouteFile" }

Init ==
  /\ project \in Projects
  /\ fs = InitialFiles(project)
  /\ now = 0
  /\ started = 0
  /\ run = [i \in Slots |-> Idle]
  /\ calls = [k \in RegFns \X Names |-> 0]
  /\ fld = NoField

\* time passes; a command reads the clock in the synchronous run that follows
\* its last prompt, so the clock is let advance between those runs
Tick ==
  /\ now < MaxTime
  /\ \A j \in Slots : Free(j) \/ run[j].waiting
  /\ now' = now + 1
  /\ UNCHANGED << project, fs, started, run, calls, fld >>

\* the user invokes command c from the palette (registerCommand: the callback
\* is called, whatever else is in progress); limit bounds the behaviour
Start(i, c, limit) ==
  /\ started < limit
  /\ Free(i)
  /\ MayRun(i)
  /\ started' = started + 1
  /\ Set(i, Shown([Idle EXCEPT !.cmd = c], FirstPrompt(c)))
  /\ UNCHANGED << project, fs, now, calls >>

\* nothing else is in progress when the command is invoked
Alone(i) == \A j \in Slots \ { i } : Free(j)

\* an artifact step inside a try block that spans the whole pipeline: the
\* first throw ends the command with the error message of the catch
Pipeline(i, pc, step, out, next) ==
  /\ run[i].pc = pc
  /\ MayRun(i)
  /\ fs' = out.fs
  /\ Set(i, IF out.threw
              THEN Return(Caught(Did(run[i], step, out), step))
              ELSE Goto(Did(run[i], step, out), next))
  /\ UNCHANGED << project, now, started >>

\* the same, for a step that shows the message note when it has not thrown
PipelineNote(i, pc, step, out, note, next) ==
  /\ run[i].pc = pc
  /\ MayRun(i)
  /\ fs' = out.fs
  /\ Set(i, IF out.threw
              THEN Return(Caught(Did(run[i], step, out), step))
              ELSE Goto(Message(Did(run[i], step, out), note), next))
  /\ UNCHANGED << project, now, started >>

\* -------------------------------------------- crud-spa.js: Vue / React CRUD
IsSpa(i) == run[i].cmd \in { "generateVueCRUD", "generateReactCRUD" }

IsVue(i) == run[i].cmd = "generateVueCRUD"

SpaModelPath(name) == << "app/Models/" >> \o name \o << ".php" >>

\* new Date().toISOString().replace(/[-:]/g,"").split(".")[0].replace("T","")
SpaMigrationPath(name, t) ==
  << "database/migrations/", ToString(t), "_create_" >> \o toSnakeCase(name) \o
  << "s_table.php" >>

SpaControllerPath(name) == << "app/Http/Controllers/Api/" >> \o name \o << "Controller.php" >>

SpaResourcePath(name) == << "app/Http/Resources/" >> \o name \o << "Resource.php" >>

SpaRequestPath(kind, name) == << "app/Http/Requests/", kind >> \o name \o << "Request.php" >>

SpaComponentPath(name, comp, ext) ==
  << "resources/js/components/" >> \o name \o << "/" >> \o name \o << comp, ext >>

SpaComposablePath(name) == << "resources/js/composables/", "use" >> \o name \o << "s.js" >>

SpaHookPath(name) == << "resources/js/hooks/", "use" >> \o name \o << "s.js" >>

SpaComponentWrites(name, fields, ext) ==
  << << SpaComponentPath(name, "List", ext), Rendered("spa:List" \o ext, name, fields) >>,
     << SpaComponentPath(name, "Form", ext), Rendered("spa:Form" \o ext, name, fields) >>,
     << SpaComponentPath(name, "Show", ext), Rendered("spa:Show" \o ext, name, fields) >> >>

\* the name prompt without its early return: a dismissal goes on to the
\* fields prompt
SpaModelNameGoesOn(i) ==
  /\ run[i].pc = "spa.modelName"
  /\ MayRun(i)
  /\ \E a \in Names \cup { Undefined } :
       Set(i, IF Falsy(a) THEN Shown(Dismiss(run[i]), "spa.fields")
              ELSE Shown([run[i] EXCEPT !.name = a], "spa.fields"))
  /\ UNCHANGED << project, fs, now, started, calls >>

\* const modelName = await showInputBox(...); if (!modelName) return;
SpaModelName(i) ==
  /\ run[i].pc = "spa.modelName"
  /\ MayRun(i)
  /\ \E a \in Names \cup { Undefined } :
       Set(i, IF Falsy(a) THEN Return(Dismiss(run[i]))
              ELSE Shown([run[i] EXCEPT !.name = a], "spa.fields"))
  /\ UNCHANGED << project, fs, now, started, calls >>

\* const fields = await showInputBox(...); if (!fields) return;
\* const parsedFields = parseFields(fields);
SpaFields(i) ==
  /\ run[i].pc = "spa.fields"
  /\ MayRun(i)
  /\ \E a \in FieldInputs \cup { <<>>, Undefined } :
       Set(i, IF Falsy(a)
                THEN Return(IF a = Undefined THEN Dismiss(run[i]) ELSE run[i])
                ELSE Goto([run[i] EXCEPT !.fields = parseFields(a)], "spa.createModel"))
  /\ UNCHANGED << project, fs, now, started, calls >>

SpaCreateModel(i) ==
  /\ IsSpa(i)
  /\ Pipeline(i, "spa.createModel", "model",
       WriteAll(fs, << << SpaModelPath(run[i].name),
                          Rendered("spa:model", run[i].name, run[i].fields) >> >>),
       "spa.createMigration")
  /\ UNCHANGED calls

SpaCreateMigration(i) ==
  /\ Pipeline(i, "spa.createMigration", "migration",
       WriteAll(fs, << << SpaMigrationPath(run[i].name, now),
                          Rendered("spa:migration", run[i].name, run[i].fields) >> >>),
       "spa.createAPIController")
  /\ UNCHANGED calls

SpaCreateAPIController(i) ==
  /\ Pipeline(i, "spa.createAPIController", "controller",
       WriteAll(fs, << << SpaControllerPath(run[i].name),
                          Rendered("spa:controller", run[i].name, run[i].fields) >> >>),
       "spa.createAPIResource")
  /\ UNCHANGED calls

SpaCreateAPIResource(i) ==
  /\ Pipeline(i, "spa.createAPIResource", "resource",
       WriteAll(fs, << << SpaResourcePath(run[i].name),
                          Rendered("spa:resource", run[i].name, run[i].fields) >> >>),
       "spa.createFormRequests")
  /\ UNCHANGED calls

SpaCreateFormRequests(i) ==
  /\ Pipeline(i, "spa.createFormRequests", "requests",
       WriteAll(fs,
         << << SpaRequestPath("Store", run[i].name),
               Rendered("spa:StoreRequest", run[i].name, run[i].fields) >>,
            << SpaRequestPath("Update", run[i].name),
               Rendered("spa:UpdateRequest", run[i].name, run[i].fields) >> >>),
       "spa.createComponents")
  /\ UNCHANGED calls

createVueComponents(i) ==
  /\ IsVue(i)
  /\ Pipeline(i, "spa.createComponents", "components",
       WriteAll(fs, SpaComponentWrites(run[i].name, run[i].fields, ".vue")),
       "spa.createHooks")
  /\ UNCHANGED calls

createReactComponents(i) ==
  /\ ~IsVue(i)
  /\ Pipeline(i, "spa.createComponents", "components",
       WriteAll(fs, SpaComponentWrites(run[i].name, run[i].fields, ".jsx")),
       "spa.createHooks")
  /\ UNCHANGED calls

\* createVueComposables / createReactHooks: the collection endpoint the
\* composable (hook) posts to
SpaRequests(name) == << "axios.post('", "/api/" >> \o toKebabCase(name) \o << "s", "', " >>

createVueComposables(i) ==
  /\ IsVue(i)
  /\ Pipeline(i, "spa.createHooks", "hooks",
       WriteAll(fs, << << SpaComposablePath(run[i].name),
                          Rendered("spa:composable", run[i].name, <<>>) \o
                          SpaRequests(run[i].name) >> >>),
       "spa.createAPIRoutes")
  /\ UNCHANGED calls

createReactHooks(i) ==
  /\ ~IsVue(i)
  /\ Pipeline(i, "spa.createHooks", "hooks",
       WriteAll(fs, << << SpaHookPath(run[i].name),
                          Rendered("spa:hook", run[i].name, <<>>) \o
                          SpaRequests(run[i].name) >> >>),
       "spa.createAPIRoutes")
  /\ UNCHANGED calls


\* a registration step of a pipeline on the shared file at path: a message
\* and nothing else when the file is missing, else the new content is
\* written when writes holds
Register(i, pc, step, fn, path, missingMsg, writes, content, next) ==
  /\ run[i].pc = pc
  /\ MayRun(i)
  /\ IF ~Exists(path)
       THEN /\ Set(i, Goto(Message(Did(run[i], step, NoWrite), missingMsg), next))
            /\ UNCHANGED << fs, calls >>
       ELSE LET out == IF writes THEN WriteAll(fs, << << path, content >> >>) ELSE NoWrite
            IN  /\ fs' = out.fs
                /\ calls' = Counted(fn, run[i].name)
                /\ Set(i, Goto(Did(run[i], step, out), next))
  /\ UNCHANGED << project, now, started >>

Content(path) == IF Exists(path) THEN fs[path] ELSE <<>>

SpaCreateAPIRoutes(i) ==
  /\ IsSpa(i)
  /\ Register(i, "spa.createAPIRoutes", "apiRoutes", "spa.createAPIRoutes",
       ApiRoutesPath, "warning",
       ~Includes(Content(ApiRoutesPath), run[i].name \o << " API Routes" >>),
       SpaApiRoutesContent(Content(ApiRoutesPath), run[i].name),
       "spa.registerRoutes")

registerVueRoutes(i) ==
  /\ IsVue(i)
  /\ Register(i, "spa.registerRoutes", "clientRoutes", "registerVueRoutes",
       VueRouterPath, "info",
       VueRouterWrites(Content(VueRouterPath), run[i].name),
       VueRouterContent(Content(VueRouterPath), run[i].name),
       "spa.success")

registerReactRoutes(i) ==
  /\ ~IsVue(i)
  /\ Register(i, "spa.registerRoutes", "clientRoutes", "registerReactRoutes",
       ReactRouterPath, "info",
       ReactRouterWrites(Content(ReactRouterPath), run[i].name),
       ReactRouterContent(Content(ReactRouterPath), run[i].name),
       "spa.success")

\* showInformationMessage("... generated successfully") after withProgress
SpaSuccess(i) ==
  /\ run[i].pc = "spa.success"
  /\ MayRun(i)
  /\ Set(i, Return(Message(run[i], "success")))
  /\ UNCHANGED << project, fs, now, started, calls >>

SpaCommands == { "generateVueCRUD", "generateReactCRUD" }

SpaStep(i) ==
  \/ SpaModelName(i)
  \/ SpaFields(i)
  \/ SpaCreateModel(i)
  \/ SpaCreateMigration(i)
  \/ SpaCreateAPIController(i)
  \/ SpaCreateAPIResource(i)
  \/ SpaCreateFormRequests(i)
  \/ createVueComponents(i)
  \/ createReactComponents(i)
  \/ createVueComposables(i)
  \/ createReactHooks(i)
  \/ SpaCreateAPIRoutes(i)
  \/ registerVueRoutes(i)
  \/ registerReactRoutes(i)
  \/ SpaSuccess(i)

\* the SPA generators, one command at a time
MaxSpaRuns == 3

NextSpa ==
  \/ Tick
  \/ \E c \in SpaCommands : Alone(1) /\ Start(1, c, MaxSpaRuns)
  \/ SpaStep(1)

SpecSpa == Init /\ [][NextSpa]_vars


\* ------------------------------------------------ part_003: generateAPI
ApiComponents ==
  { "model", "migration", "controller", "resource", "collection", "requests", "routes",
    "tests", "policy" }

\* let components = {...}: the basic and the complete selections
BasicComponents == { "controller", "routes" }

\* what the multi-select of the custom API type resolves to
CustomSelections == { {}, { "model", "routes" }, { "model", "controller", "resource" } }

VersionDir(version) == IF version = "" THEN <<>> ELSE << VersionUpper(version), "/" >>

ApiControllerPath(name, version) ==
  << "app/Http/Controllers/Api/" >> \o VersionDir(version) \o name \o << "Controller.php" >>

ApiResourcePath(name, version) ==
  << "app/Http/Resources/" >> \o VersionDir(version) \o name \o << "Resource.php" >>

ApiCollectionPath(name, version) ==
  << "app/Http/Resources/" >> \o VersionDir(version) \o name \o << "Collection.php" >>

ApiTestPath(name) == << "tests/Feature/" >> \o name \o << "ApiTest.php" >>

ApiPolicyPath(name) == << "app/Policies/" >> \o name \o << "Policy.php" >>

ApiRendered(template, r) == << template, r.version, r.auth >> \o r.name

IsApi(i) == run[i].cmd = "generateAPI"

\* const modelName = await showInputBox(...); if (!modelName) return;
ApiModelName(i) ==
  /\ run[i].pc = "api.modelName"
  /\ MayRun(i)
  /\ \E a \in Names \cup { Undefined } :
       Set(i, IF Falsy(a) THEN Return(Dismiss(run[i]))
              ELSE Shown([run[i] EXCEPT !.name = a], "api.apiType"))
  /\ UNCHANGED << project, fs, now, started, calls >>

\* const apiType = await showQuickPick(...); if (!apiType) return;
ApiType(i) ==
  /\ run[i].pc = "api.apiType"
  /\ MayRun(i)
  /\ \E a \in { "complete", "basic", "custom", "<undefined>" } :
       Set(i, CASE a = "<undefined>" -> Return(Dismiss(run[i]))
                [] a = "custom" -> Shown([run[i] EXCEPT !.opt = a], "api.selected")
                [] a = "complete" ->
                     Shown([run[i] EXCEPT !.opt = a, !.comps = ApiComponents],
                           "api.useVersioning")
                [] OTHER ->
                     Shown([run[i] EXCEPT !.opt = a, !.comps = BasicComponents],
                           "api.useVersioning"))
  /\ UNCHANGED << project, fs, now, started, calls >>

\* if (!selected || selected.length === 0) return;
ApiSelected(i) ==
  /\ run[i].pc = "api.selected"
  /\ MayRun(i)
  /\ \/ Set(i, Return(Dismiss(run[i])))
     \/ \E a \in CustomSelections :
          Set(i, IF a = {} THEN Return(run[i])
                 ELSE Shown([run[i] EXCEPT !.comps = a], "api.useVersioning"))
  /\ UNCHANGED << project, fs, now, started, calls >>

\* if (useVersioning === undefined) return; apiVersion = useVersioning.value || null
ApiUseVersioning(i) ==
  /\ run[i].pc = "api.useVersioning"
  /\ MayRun(i)
  /\ \E a \in { "", "v1", "<undefined>" } :
       Set(i, IF a = "<undefined>" THEN Return(Dismiss(run[i]))
              ELSE Shown([run[i] EXCEPT !.version = a], "api.useAuth"))
  /\ UNCHANGED << project, fs, now, started, calls >>

\* if (!useAuth) return;
ApiUseAuth(i) ==
  /\ run[i].pc = "api.useAuth"
  /\ MayRun(i)
  /\ \E a \in { "none", "sanctum", "<undefined>" } :
       Set(i, IF a = "<undefined>" THEN Return(Dismiss(run[i]))
              ELSE Goto([run[i] EXCEPT !.auth = a], "api.createModel"))
  /\ UNCHANGED << project, fs, now, started, calls >>

\* an artifact step in a try block of its own: a throw shows the error
\* message of that step and the pipeline goes on with the next step
Recovered(i, step, out, next) ==
  /\ fs' = out.fs
  /\ Set(i, IF out.threw
              THEN Goto(Caught(Did(run[i], step, out), step), next)
              ELSE Goto(Did(run[i], step, out), next))
  /\ UNCHANGED << project, now, started, calls >>

\* if (components.<step>) { try { await create...() } catch ... }, where
\* create...() asks before it overwrites when ask holds
ApiArtifact(i, pc, step, ask, writes, next) ==
  /\ IsApi(i)
  /\ run[i].pc = pc
  /\ MayRun(i)
  /\ IF step \notin run[i].comps
       THEN /\ Set(i, Goto(run[i], next))
            /\ UNCHANGED << project, fs, now, started, calls >>
       ELSE IF ask /\ Exists(writes[1][1])
         THEN /\ Set(i, Shown([run[i] EXCEPT !.attempted = @ \cup { step }],
                              pc \o ".overwrite"))
              /\ UNCHANGED << project, fs, now, started, calls >>
         ELSE Recovered(i, step, WriteAll(fs, writes), next)

\* const overwrite = await showWarningMessage("... already exists. Overwrite?",
\* "Yes", "No"); if (overwrite !== "Yes") return;
ApiOverwrite(i, pc, step, writes, next) ==
  /\ IsApi(i)
  /\ run[i].pc = pc \o ".overwrite"
  /\ MayRun(i)
  /\ \E a \in { "Yes", "No", "<undefined>" } :
       IF a = "Yes"
         THEN Recovered(i, step, WriteAll(fs, writes), next)
         ELSE /\ Set(i, Goto(IF a = "No" THEN run[i] ELSE Dismiss(run[i]), next))
              /\ UNCHANGED << project, fs, now, started, calls >>

ApiCreateModel(i) ==
  ApiArtifact(i, "api.createModel", "model", TRUE, << << SpaModelPath(run[i].name), << "api:model" >> \o run[i].name >> >>,
              "api.createAPIController")

ApiOverwriteModel(i) ==
  ApiOverwrite(i, "api.createModel", "model", << << SpaModelPath(run[i].name), << "api:model" >> \o run[i].name >> >>,
               "api.createAPIController")

ApiCreateAPIController(i) ==
  ApiArtifact(i, "api.createAPIController", "controller", TRUE,
              << << ApiControllerPath(run[i].name, run[i].version), ApiRendered("api:controller", run[i]) >> >>, "api.createAPIResource")

ApiOverwriteController(i) ==
  ApiOverwrite(i, "api.createAPIController", "controller",
               << << ApiControllerPath(run[i].name, run[i].version), ApiRendered("api:controller", run[i]) >> >>, "api.createAPIResource")

ApiCreateAPIResource(i) ==
  ApiArtifact(i, "api.createAPIResource", "resource", TRUE,
              << << ApiResourcePath(run[i].name, run[i].version), ApiRendered("api:resource", run[i]) >> >>, "api.createAPICollection")

ApiOverwriteResource(i) ==
  ApiOverwrite(i, "api.createAPIResource", "resource",
               << << ApiResourcePath(run[i].name, run[i].version), ApiRendered("api:resource", run[i]) >> >>, "api.createAPICollection")

createAPICollection(i) ==
  ApiArtifact(i, "api.createAPICollection", "collection", TRUE,
              << << ApiCollectionPath(run[i].name, run[i].version), ApiRendered("api:collection", run[i]) >> >>, "api.createFormRequests")

ApiOverwriteCollection(i) ==
  ApiOverwrite(i, "api.createAPICollection", "collection",
               << << ApiCollectionPath(run[i].name, run[i].version), ApiRendered("api:collection", run[i]) >> >>, "api.createFormRequests")

ApiCreateFormRequests(i) ==
  ApiArtifact(i, "api.createFormRequests", "requests", FALSE,
              << << SpaRequestPath("Store", run[i].name), << "api:StoreRequest" >> \o run[i].name >>, << SpaRequestPath("Update", run[i].name), << "api:UpdateRequest" >> \o run[i].name >> >>, "api.createAPIRoutes")

\* if (components.routes) { try { await createAPIRoutes(...) } catch ... }
ApiCreateAPIRoutes(i) ==
  /\ IsApi(i)
  /\ IF "routes" \in run[i].comps
       THEN Register(i, "api.createAPIRoutes", "routes", "api.createAPIRoutes",
              ApiRoutesPath, "warning",
              ~Includes(Content(ApiRoutesPath), run[i].name \o << " API Routes" >>),
              ApiGenRoutesContent(Content(ApiRoutesPath), run[i].name, run[i].version),
              "api.createAPITests")
       ELSE /\ run[i].pc = "api.createAPIRoutes"
            /\ MayRun(i)
            /\ Set(i, Goto(run[i], "api.createAPITests"))
            /\ UNCHANGED << project, fs, now, started, calls >>

\* createAPITests: getJson('/api${endpoint}'), the endpoint being
\* `${versionPrefix}/${toKebabCase(modelName)}s`
ApiTestRequests(name, version) ==
  << "getJson('", "/api" >> \o (IF version = "" THEN <<>> ELSE << "/", version >>) \o
  << "/" >> \o toKebabCase(name) \o << "s", "')" >>

createAPITests(i) ==
  ApiArtifact(i, "api.createAPITests", "tests", FALSE,
              << << ApiTestPath(run[i].name),
                    ApiRendered("api:test", run[i]) \o
                    ApiTestRequests(run[i].name, run[i].version) >> >>,
              "api.createPolicy")

createPolicy(i) ==
  ApiArtifact(i, "api.createPolicy", "policy", FALSE, << << ApiPolicyPath(run[i].name), << "api:policy" >> \o run[i].name >> >>,
              "api.success")

\* showInformationMessage("... generated successfully"), whatever the steps did
ApiSuccess(i) ==
  /\ run[i].pc = "api.success"
  /\ MayRun(i)
  /\ Set(i, Return(Message(run[i], "success")))
  /\ UNCHANGED << project, fs, now, started, calls >>

ApiStep(i) ==
  \/ ApiModelName(i)
  \/ ApiType(i)
  \/ ApiSelected(i)
  \/ ApiUseVersioning(i)
  \/ ApiUseAuth(i)
  \/ ApiCreateModel(i)
  \/ ApiOverwriteModel(i)
  \/ ApiCreateAPIController(i)
  \/ ApiOverwriteController(i)
  \/ ApiCreateAPIResource(i)
  \/ ApiOverwriteResource(i)
  \/ createAPICollection(i)
  \/ ApiOverwriteCollection(i)
  \/ ApiCreateFormRequests(i)
  \/ ApiCreateAPIRoutes(i)
  \/ createAPITests(i)
  \/ createPolicy(i)
  \/ ApiSuccess(i)



\* ------------------------------------------------ views.js: generateCRUD
\* helpers.js detectFrontendFramework: JSON.parse of package.json, its
\* dependencies, and the catch that answers "blade"
JsonParse(text) ==
  CASE text = << "{ \"dependencies\": { \"vue\": \"^3\" } }" >> ->
         [ok |-> TRUE, dependencies |-> { "vue" }]
    [] text = << "{ \"dependencies\": { \"react\": \"^18\" } }" >> ->
         [ok |-> TRUE, dependencies |-> { "react" }]
    [] OTHER -> [ok |-> FALSE, dependencies |-> {}]

FrameworkOf(dependencies) ==
  IF dependencies \cap { "@livewire/livewire", "livewire" } # {} THEN "livewire"
  ELSE IF dependencies \cap { "react", "@vitejs/plugin-react" } # {} THEN "react"
  ELSE IF dependencies \cap { "vue", "@vitejs/plugin-vue" } # {} THEN "vue"
  ELSE "blade"

\* threw: JSON.parse threw and the bare catch swallowed it
detectFrontendFramework ==
  IF ~Exists(PackageJsonPath) THEN [framework |-> "null", threw |-> FALSE]
  ELSE IF ~JsonParse(fs[PackageJsonPath]).ok THEN [framework |-> "blade", threw |-> TRUE]
  ELSE [framework |-> FrameworkOf(JsonParse(fs[PackageJsonPath]).dependencies),
        threw |-> FALSE]

IsCrud(i) == run[i].cmd = "generateCRUD"

\* options.value: the api type registers in routes/api.php, the others in web.php
CrudRouteType(opt) == IF opt = "api" THEN "api" ELSE "web"

CrudControllerPath(name) == << "app/Http/Controllers/" >> \o name \o << "Controller.php" >>

CrudViewPath(name, view) ==
  << "resources/views/" >> \o toKebabCase(name) \o << "/", view, ".blade.php" >>

CrudComponentPath(name, comp, ext) ==
  << "resources/js/Components/" >> \o toPascalCase(name) \o << "/", comp, ext >>

CrudModularPath(name, opt) ==
  << "routes/modules/", CrudRouteType(opt), "/" >> \o toKebabCase(name) \o << ".php" >>

BladeViewWrites(name, fields) ==
  [k \in 1..4 |->
     LET view == << "index", "create", "edit", "show" >>[k]
     IN  << CrudViewPath(name, view), Rendered("crud:blade:" \o view, name, fields) >>]

\* createReactViews / createVueViews: two components, then
\* importComponentsToAppJS, which returns when there is no app.js
\* generateReactIndex / generateVueIndex: axios.get('/api/${route}'), and in
\* the React component <a href="/\${route}/create">, whose escaped
\* placeholder stays in the text
CrudIndexRequests(name, ext) ==
  << "axios.get('", "/api/" >> \o toKebabCase(name) \o << "')" >> \o
  (IF ext = ".jsx" THEN << "href=\"", "/", "${route}", "/create", "\"" >> ELSE <<>>)

\* generateReactForm / generateVueForm: axios.post('/api/${route}', formData)
CrudFormRequests(name) == << "axios.post('", "/api/" >> \o toKebabCase(name) \o << "', " >>

ComponentViewWrites(name, fields, framework, ext) ==
  << << CrudComponentPath(name, "Index", ext),
        Rendered("crud:Index" \o ext, name, fields) \o CrudIndexRequests(name, ext) >>,
     << CrudComponentPath(name, "Form", ext),
        Rendered("crud:Form" \o ext, name, fields) \o CrudFormRequests(name) >> >>
  \o (IF Exists(AppJsPath)
        THEN << << AppJsPath, AppJsContent(fs[AppJsPath], name, framework) >> >>
        ELSE <<>>)

\* createViews: switch (framework)
ViewWrites(name, fields, framework) ==
  CASE framework = "livewire" -> <<>>
    [] framework = "react" -> ComponentViewWrites(name, fields, "react", ".jsx")
    [] framework = "vue" -> ComponentViewWrites(name, fields, "vue", ".vue")
    [] OTHER -> BladeViewWrites(name, fields)

\* const modelName = await showInputBox(...); if (!modelName) return;
CrudModelName(i) ==
  /\ run[i].pc = "crud.modelName"
  /\ MayRun(i)
  /\ \E a \in Names \cup { Undefined } :
       Set(i, IF Falsy(a) THEN Return(Dismiss(run[i]))
              ELSE Shown([run[i] EXCEPT !.name = a], "crud.fields"))
  /\ UNCHANGED << project, fs, now, started, calls >>

\* if (!fields) return; const framework = detectFrontendFramework();
CrudFields(i) ==
  /\ run[i].pc = "crud.fields"
  /\ MayRun(i)
  /\ \E a \in FieldInputs \cup { <<>>, Undefined } :
       Set(i, IF Falsy(a)
                THEN Return(IF a = Undefined THEN Dismiss(run[i]) ELSE run[i])
                ELSE Shown([run[i] EXCEPT
                              !.fields = parseFields(a),
                              !.framework = detectFrontendFramework.framework,
                              !.failed = IF detectFrontendFramework.threw
                                           THEN @ \cup { "detectFramework" } ELSE @],
                           "crud.options"))
  /\ UNCHANGED << project, fs, now, started, calls >>

\* const options = await showQuickPick(...); if (!options) return;
CrudOptions(i) ==
  /\ run[i].pc = "crud.options"
  /\ MayRun(i)
  /\ \E a \in { "full", "backend", "api", "<undefined>" } :
       Set(i, IF a = "<undefined>" THEN Return(Dismiss(run[i]))
              ELSE Goto([run[i] EXCEPT !.opt = a], "crud.createModel"))
  /\ UNCHANGED << project, fs, now, started, calls >>


CrudCreateModel(i) ==
  /\ IsCrud(i)
  /\ Pipeline(i, "crud.createModel", "model",
       WriteAll(fs, << << SpaModelPath(run[i].name),
                          Rendered("crud:model", run[i].name, run[i].fields) >> >>),
       "crud.createMigration")
  /\ UNCHANGED calls

CrudCreateMigration(i) ==
  /\ Pipeline(i, "crud.createMigration", "migration",
       WriteAll(fs, << << SpaMigrationPath(run[i].name, now),
                          Rendered("crud:migration", run[i].name, run[i].fields) >> >>),
       "crud.createController")
  /\ UNCHANGED calls

\* if (options.value !== "api") await createViews(...)
createController(i) ==
  /\ Pipeline(i, "crud.createController", "controller",
       WriteAll(fs, << << CrudControllerPath(run[i].name),
                          << "crud:controller", CrudRouteType(run[i].opt) >> \o
                          run[i].name >> >>),
       IF run[i].opt # "api" THEN "crud.createViews" ELSE "crud.createRoutes")
  /\ UNCHANGED calls

createViews(i) ==
  /\ IF run[i].framework = "livewire"
       THEN PipelineNote(i, "crud.createViews", "views", NoWrite, "info",
                         "crud.createRoutes")
       ELSE Pipeline(i, "crud.createViews", "views",
                     WriteAll(fs, ViewWrites(run[i].name, run[i].fields,
                                             run[i].framework)),
                     "crud.createRoutes")
  /\ UNCHANGED calls

\* createRoutes: const useModular = await showQuickPick(...)
createRoutes(i) ==
  /\ run[i].pc = "crud.createRoutes"
  /\ MayRun(i)
  /\ Set(i, Shown(run[i], "crud.useModular"))
  /\ UNCHANGED << project, fs, now, started, calls >>

\* if (useModular === undefined) return; and generateCRUD goes on to its
\* success message
CrudUseModular(i) ==
  /\ run[i].pc = "crud.useModular"
  /\ MayRun(i)
  /\ \E a \in { "modular", "traditional", "<undefined>" } :
       Set(i, CASE a = "<undefined>" -> Goto(Dismiss(run[i]), "crud.success")
                [] a = "modular" -> Goto(run[i], "crud.createModularRoutes")
                [] OTHER -> Goto(run[i], "crud.createTraditionalRoutes"))
  /\ UNCHANGED << project, fs, now, started, calls >>

\* the route file of the module, the tip of ensureRouteServiceProvider and
\* the "Modular routes created" message
createModularRoutes(i) ==
  /\ PipelineNote(i, "crud.createModularRoutes", "routes",
       WriteAll(fs, << << CrudModularPath(run[i].name, run[i].opt),
                          << "crud:routes", CrudRouteType(run[i].opt), NL >> \o
                          RouteLine(run[i].name, CrudRouteType(run[i].opt)) \o
                          << NL >> >> >>),
       "info", "crud.success")
  /\ UNCHANGED calls

createTraditionalRoutes(i) ==
  Register(i, "crud.createTraditionalRoutes", "routes", "createTraditionalRoutes",
    MainRouteFile(CrudRouteType(run[i].opt)), "warning",
    ~Includes(Content(MainRouteFile(CrudRouteType(run[i].opt))),
              RouteLine(run[i].name, CrudRouteType(run[i].opt))),
    TraditionalRoutesContent(Content(MainRouteFile(CrudRouteType(run[i].opt))),
                             run[i].name, CrudRouteType(run[i].opt)),
    "crud.success")

CrudSuccess(i) ==
  /\ run[i].pc = "crud.success"
  /\ MayRun(i)
  /\ Set(i, Return(Message(run[i], "success")))
  /\ UNCHANGED << project, fs, now, started, calls >>

CrudStep(i) ==
  \/ CrudModelName(i)
  \/ CrudFields(i)
  \/ CrudOptions(i)
  \/ CrudCreateModel(i)
  \/ CrudCreateMigration(i)
  \/ createController(i)
  \/ createViews(i)
  \/ createRoutes(i)
  \/ CrudUseModular(i)
  \/ createModularRoutes(i)
  \/ createTraditionalRoutes(i)
  \/ CrudSuccess(i)



\* --------------------------------------- artisan.js and executeArtisanCommand
\* `make:model ${modelName} ${options.value}`.trim()
MakeModelCommand(name, option) ==
  Trim(<< "make:model", " " >> \o name \o << " " >> \o
       (IF option = "" THEN <<>> ELSE << option >>))

\* `make:controller ${controllerName} ${type.value}`.trim()
MakeControllerCommand(name, type) ==
  Trim(<< "make:controller", " " >> \o name \o << " " >> \o
       (IF type = "" THEN <<>> ELSE << type >>))

\* `make:controller ${controllerName} --model=${modelName}`
MakeControllerModelCommand(name, modelName) ==
  << "make:controller", " " >> \o name \o << " ", "--model=" >> \o modelName

\* executeArtisanCommand up to its await: the command line is sent to a new
\* terminal (terminal.sendText) and run once more by child_process.exec
Issued(r, command) ==
  [r EXCEPT !.pc = "artisan.exec", !.waiting = TRUE,
            !.ran = command, !.execs = @ + 2,
            !.afterCancel = @ \/ r.dismissed]

IsArtisan(i) == run[i].cmd \in { "makeModel", "makeController" }

\* const modelName = await showInputBox(...); if (!modelName) return;
MakeModelName(i) ==
  /\ run[i].pc = "makeModel.modelName"
  /\ MayRun(i)
  /\ \E a \in Names \cup { Undefined } :
       Set(i, IF Falsy(a) THEN Return(Dismiss(run[i]))
              ELSE Shown([run[i] EXCEPT !.name = a], "makeModel.options"))
  /\ UNCHANGED << project, fs, now, started, calls >>

\* if (!options) return; ... await executeArtisanCommand(command)
MakeModelOptions(i) ==
  /\ run[i].pc = "makeModel.options"
  /\ MayRun(i)
  /\ \E a \in { "", "-m", "<undefined>" } :
       Set(i, IF a = "<undefined>" THEN Return(Dismiss(run[i]))
              ELSE Issued([run[i] EXCEPT !.opt = a], MakeModelCommand(run[i].name, a)))
  /\ UNCHANGED << project, fs, now, started, calls >>

\* const controllerName = await showInputBox(...); if (!controllerName) return;
MakeControllerName(i) ==
  /\ run[i].pc = "makeController.controllerName"
  /\ MayRun(i)
  /\ \E a \in Names \cup { Undefined } :
       Set(i, IF Falsy(a) THEN Return(Dismiss(run[i]))
              ELSE Shown([run[i] EXCEPT !.name = a \o << "Controller" >>],
                         "makeController.type"))
  /\ UNCHANGED << project, fs, now, started, calls >>

\* if (!type) return; if (type.value === "--model") { modelName = await ... }
MakeControllerType(i) ==
  /\ run[i].pc = "makeController.type"
  /\ MayRun(i)
  /\ \E a \in { "", "--api", "--model", "<undefined>" } :
       Set(i, CASE a = "<undefined>" -> Return(Dismiss(run[i]))
                [] a = "--model" ->
                     Shown([run[i] EXCEPT !.opt = a], "makeController.modelName")
                [] OTHER ->
                     Issued([run[i] EXCEPT !.opt = a],
                            MakeControllerCommand(run[i].name, a)))
  /\ UNCHANGED << project, fs, now, started, calls >>

\* if (modelName) { command = ... --model=${modelName} }: an empty or a
\* dismissed model name leaves `make:controller X --model`, which is executed
MakeControllerModelName(i) ==
  /\ run[i].pc = "makeController.modelName"
  /\ MayRun(i)
  /\ \E a \in Names \cup { <<>>, Undefined } :
       Set(i, IF Falsy(a)
                THEN Issued(IF a = Undefined THEN Dismiss(run[i]) ELSE run[i],
                            MakeControllerCommand(run[i].name, run[i].opt))
                ELSE Issued(run[i], MakeControllerModelCommand(run[i].name, a)))
  /\ UNCHANGED << project, fs, now, started, calls >>

\* how the child process can end: exit code 0, a non-zero exit code, a
\* non-zero exit code with "Command not found" in the error message
ExecOutcomes == { "ok", "error", "errorCommandNotFound" }

\* the callback of exec and the try/catch around await executeArtisanCommand:
\* if (error && !error.message.includes("Command not found")) { showErrorMessage;
\* reject } else resolve
ExecCallback(i) ==
  /\ IsArtisan(i)
  /\ run[i].pc = "artisan.exec"
  /\ MayRun(i)
  /\ \E outcome \in ExecOutcomes :
       Set(i, CASE outcome = "ok" -> Return(Message(run[i], "success"))
                [] outcome = "error" ->
                     Return(Caught([run[i] EXCEPT !.failed = @ \cup { "exec" }], "exec"))
                [] OTHER ->
                     Return(Message([run[i] EXCEPT !.failed = @ \cup { "exec" }],
                                    "success")))
  /\ UNCHANGED << project, fs, now, started, calls >>

ArtisanStep(i) ==
  \/ MakeModelName(i)
  \/ MakeModelOptions(i)
  \/ MakeControllerName(i)
  \/ MakeControllerType(i)
  \/ MakeControllerModelName(i)
  \/ ExecCallback(i)

ArtisanCommands == { "makeModel", "makeController" }



\* ------------------------------------------- part_003: generateMigration
\* answers to the "Table name" and the manual "Fields" prompts
TableNames == { << "posts" >> }

ManualInputs == { << "title", ":", "string", ":", "unique" >>, << "title", ",", "body", ":", "text" >> }

\* a field descriptor of the migration builder with no optional property
\* set; order lists the modifier properties in the order they were set
Field(name, type) ==
  [ name |-> name, type |-> type, length |-> Undefined, precision |-> Undefined,
    scale |-> Undefined, values |-> Undefined, unsigned |-> FALSE, nullable |-> FALSE,
    unique |-> FALSE, index |-> FALSE, default |-> FALSE, comment |-> FALSE,
    defaultValue |-> Undefined, commentText |-> Undefined, constrained |-> Undefined,
    cascadeOnDelete |-> FALSE, special |-> Undefined, indexType |-> Undefined,
    order |-> <<>> ]

\* parseInt on the texts the prompts are answered with: leading white space is
\* skipped, the digits up to the first other character are read, NaN when
\* there are none
Numerals == { "0", "2", "4", "8", "10", "255" }

ParseInt(text) ==
  LET t == TrimStart(text)
  IN  IF t # <<>> /\ t[1] \in Numerals THEN << t[1] >>
      ELSE IF t # <<>> /\ t[1] = "8.5" THEN << "8" >>
      ELSE << "NaN" >>

\* !n for a number or an absent property
NumFalsy(n) == n \in { Undefined, << "0" >>, << "NaN" >> }

\* parseFieldsManual: split(","), trim, split(":"); parts[1] || "string";
\* parts[2] is "unique" or "nullable", or the precision of a decimal, whose
\* scale is parts[3] or 2
ParseManual(fieldStr) ==
  LET parts == SplitOn(Trim(fieldStr), ":")
      type == IF Len(parts) >= 2 /\ parts[2] # <<>> THEN parts[2] ELSE << "string" >>
      third == IF Len(parts) >= 3 THEN parts[3] ELSE <<>>
      field == Field(parts[1], type)
  IN  IF third = <<>> THEN field
      ELSE IF third = << "unique" >>
        THEN [field EXCEPT !.unique = TRUE, !.order = << "unique" >>]
      ELSE IF third = << "nullable" >>
        THEN [field EXCEPT !.nullable = TRUE, !.order = << "nullable" >>]
      ELSE IF Len(parts) >= 2 /\ parts[2] = << "decimal" >>
        THEN [field EXCEPT
                !.precision = ParseInt(third),
                !.scale = IF Len(parts) >= 4 /\ parts[4] # <<>>
                            THEN ParseInt(parts[4]) ELSE << "2" >>]
      ELSE field

parseFieldsManual(input) ==
  LET fieldStrings == SplitOn(input, ",")
  IN  [k \in 1..Len(fieldStrings) |-> ParseManual(fieldStrings[k])]

\* tableOptions.forEach(opt => fields.push({name, type: "special", special}))
SpecialFields(options) ==
  IF "timestamps" \in options
    THEN << [Field(<< "timestamps" >>, << "special" >>) EXCEPT
               !.special = << "timestamps" >>] >>
    ELSE <<>>

\* field.values.map((v) => `'${v}'`).join(", ") of the trimmed enum values,
\* which are kept as one text with "," between them
RECURSIVE EnumValues(_)
EnumValues(values) ==
  IF IndexOfTok(values, ",") = -1 THEN << "'" >> \o values \o << "'" >>
  ELSE << "'" >> \o SubSeq(values, 1, IndexOfTok(values, ",")) \o << "'", ", " >> \o
       EnumValues(SubSeq(values, IndexOfTok(values, ",") + 2, Len(values)))

\* generateFieldDefinition up to the closing parenthesis of the column
ColumnCall(field) ==
  << "$table->" >> \o field.type \o << "('" >> \o field.name \o << "'" >> \o
  (IF NumFalsy(field.length) THEN <<>> ELSE << ", " >> \o field.length) \o
  (IF NumFalsy(field.precision) \/ NumFalsy(field.scale) THEN <<>>
   ELSE << ", " >> \o field.precision \o << ", " >> \o field.scale) \o
  (IF field.values = Undefined THEN <<>>
   ELSE << ", [" >> \o EnumValues(field.values) \o << "]" >>) \o
  << ")" >>

\* the text one modifier adds to the column definition, <<>> when the
\* descriptor does not ask for it
Modifier(field, m) ==
  CASE m = "unsigned" -> IF field.unsigned THEN << "->unsigned()" >> ELSE <<>>
    [] m = "nullable" -> IF field.nullable THEN << "->nullable()" >> ELSE <<>>
    [] m = "unique" -> IF field.unique THEN << "->unique()" >> ELSE <<>>
    [] m = "index" -> IF field.index THEN << "->index()" >> ELSE <<>>
    [] m = "default" ->
         IF field.defaultValue = Undefined THEN <<>>
         ELSE IF field.defaultValue = << "null" >> THEN << "->default(", "null", ")" >>
         ELSE << "->default(", "'" >> \o field.defaultValue \o << "'", ")" >>
    [] m = "comment" ->
         IF Falsy(field.commentText) THEN <<>>
         ELSE << "->comment('" >> \o field.commentText \o << "')" >>
    [] m = "constrained" ->
         IF Falsy(field.constrained) THEN <<>>
         ELSE << "->constrained('" >> \o field.constrained \o << "')" >>
    [] m = "cascadeOnDelete" ->
         IF field.cascadeOnDelete THEN << "->cascadeOnDelete()" >> ELSE <<>>
    [] OTHER -> <<>>

\* the order in which generateFieldDefinition tests the modifiers
ModifierOrder ==
  << "unsigned", "nullable", "unique", "index", "default", "comment", "constrained",
     "cascadeOnDelete" >>

RECURSIVE Modifiers(_, _)
Modifiers(field, order) ==
  IF order = <<>> THEN <<>>
  ELSE Modifier(field, order[1]) \o Modifiers(field, Tail(order))

\* a definition whose modifiers follow the order in which the properties of
\* the descriptor were set
generateFieldDefinitionAsSet(field) ==
  IF field.type = << "special" >> THEN << "$table->" >> \o field.special \o << "();" >>
  ELSE ColumnCall(field) \o Modifiers(field, field.order) \o << ";" >>

generateFieldDefinition(field) ==
  IF field.type = << "special" >> THEN << "$table->" >> \o field.special \o << "();" >>
  ELSE ColumnCall(field) \o Modifiers(field, ModifierOrder) \o << ";" >>

\* fields.map((field) => generateFieldDefinition(field)).join("\n")
RECURSIVE MigrationFieldText(_)
MigrationFieldText(fields) ==
  IF fields = <<>> THEN <<>>
  ELSE IF Len(fields) = 1 THEN generateFieldDefinition(fields[1])
  ELSE generateFieldDefinition(fields[1]) \o << NL >> \o MigrationFieldText(Tail(fields))

\* createMigrationFile: upContent, by migration type; it stays "" for the
\* types that no branch handles
UpContent(type, tableName, fields) ==
  CASE type = "create" ->
         << "Schema::create('" >> \o tableName \o
         << "', function (Blueprint $table) {", NL, "$table->id();", NL >> \o
         MigrationFieldText(fields) \o << NL, "});" >>
    [] type \in { "update", "add_column" } ->
         << "Schema::table('" >> \o tableName \o
         << "', function (Blueprint $table) {", NL >> \o
         MigrationFieldText(fields) \o << NL, "});" >>
    [] type = "drop" -> << "Schema::dropIfExists('" >> \o tableName \o << "');" >>
    [] OTHER -> <<>>

DownContent(type, tableName) ==
  CASE type = "create" -> << "Schema::dropIfExists('" >> \o tableName \o << "');" >>
    [] type \in { "update", "add_column" } ->
         << "Schema::table('" >> \o tableName \o
         << "', function (Blueprint $table) {", NL, "// Reverse changes here", NL, "});" >>
    [] type = "drop" -> << "// Cannot reverse drop table" >>
    [] OTHER -> <<>>

\* the migration class around upContent and downContent
MigrationContent(type, tableName, fields) ==
  << "<?php", NL, "public function up(): void", NL, "{", NL >> \o
  UpContent(type, tableName, fields) \o
  << NL, "}", NL, "public function down(): void", NL, "{", NL >> \o
  DownContent(type, tableName) \o << NL, "}", NL >>

\* migrationName, by migration type; column is the column name, or the index
\* type of an index
MigrationName(type, tableName, column) ==
  CASE type = "create" -> << "create_" >> \o tableName \o << "_table" >>
    [] type = "update" -> << "add_fields_to_" >> \o tableName \o << "_table" >>
    [] type = "drop" -> << "drop_" >> \o tableName \o << "_table" >>
    [] type = "add_column" ->
         << "add_" >> \o column \o << "_to_" >> \o tableName \o << "_table" >>
    [] type = "drop_column" ->
         << "remove_" >> \o column \o << "_from_" >> \o tableName \o << "_table" >>
    [] type = "add_foreign" ->
         << "add_" >> \o column \o << "_foreign_to_" >> \o tableName \o << "_table" >>
    [] OTHER -> << "add_" >> \o column \o << "_to_" >> \o tableName \o << "_table" >>

\* createMigrationFile: `${timestamp}_${migrationName}.php`, the timestamp
\* being toISOString() cut after the tenths of a second
MigrationFilePath(migrationName, t) ==
  << "database/migrations/", ToString(t), ".0_" >> \o migrationName \o << ".php" >>

MigrationColumn(r) ==
  CASE r.opt \in { "add_column", "drop_column", "add_foreign" } -> r.fields[1].name
    [] r.opt = "add_index" -> r.fields[1].indexType
    [] OTHER -> <<>>

\* const migrationType = await showQuickPick(...); if (!migrationType) return;
MigrationType(i) ==
  /\ run[i].pc = "migration.migrationType"
  /\ MayRun(i)
  /\ \E a \in { "create", "drop", "drop_column", "add_foreign", "add_index",
               "<undefined>" } :
       Set(i, IF a = "<undefined>" THEN Return(Dismiss(run[i]))
              ELSE Shown([run[i] EXCEPT !.opt = a], "migration.tableName"))
  /\ UNCHANGED << project, fs, now, started, calls >>

\* if (!tableName) return; then the branch of the migration type
MigrationTableName(i) ==
  /\ run[i].pc = "migration.tableName"
  /\ MayRun(i)
  /\ \E a \in TableNames \cup { Undefined } :
       Set(i, IF Falsy(a) THEN Return(Dismiss(run[i]))
              ELSE CASE run[i].opt = "create" ->
                          Shown([run[i] EXCEPT !.name = a], "migration.useBuilder")
                     [] run[i].opt \in { "drop_column", "add_foreign", "add_index" } ->
                          Shown([run[i] EXCEPT !.name = a], "migration.columnName")
                     [] OTHER ->
                          Goto([run[i] EXCEPT !.name = a], "migration.createMigrationFile"))
  /\ UNCHANGED << project, fs, now, started, calls >>

\* if (!useBuilder) return; the manual definition asks for the fields
MigrationUseBuilder(i) ==
  /\ run[i].pc = "migration.useBuilder"
  /\ MayRun(i)
  /\ \E a \in { "manual", "<undefined>" } :
       Set(i, IF a = "<undefined>" THEN Return(Dismiss(run[i]))
              ELSE Shown(run[i], "migration.fieldsInput"))
  /\ UNCHANGED << project, fs, now, started, calls >>

\* if (fieldsInput) { fields = parseFieldsManual(fieldsInput) }; the table
\* options are asked for whatever the answer was
MigrationFieldsInput(i) ==
  /\ run[i].pc = "migration.fieldsInput"
  /\ MayRun(i)
  /\ \E a \in ManualInputs \cup { <<>>, Undefined } :
       Set(i, IF Falsy(a)
                THEN Shown(IF a = Undefined THEN Dismiss(run[i]) ELSE run[i],
                           "migration.tableOptions")
                ELSE Shown([run[i] EXCEPT !.fields = parseFieldsManual(a)],
                           "migration.tableOptions"))
  /\ UNCHANGED << project, fs, now, started, calls >>

\* if (tableOptions) { ... fields.push(...) }; the file is created whatever
\* the answer was
MigrationTableOptions(i) ==
  /\ run[i].pc = "migration.tableOptions"
  /\ MayRun(i)
  /\ \/ Set(i, Goto(Dismiss(run[i]), "migration.createMigrationFile"))
     \/ \E a \in { {}, { "timestamps" } } :
          Set(i, Goto([run[i] EXCEPT !.fields = @ \o SpecialFields(a)],
                      "migration.createMigrationFile"))
  /\ UNCHANGED << project, fs, now, started, calls >>

\* const columnName = await showInputBox(...); if (!columnName) return;
\* (columnNames for an index); a column to drop is pushed at once, a foreign
\* key and an index have a second prompt
MigrationColumnName(i) ==
  /\ run[i].pc = "migration.columnName"
  /\ MayRun(i)
  /\ \E a \in { << "status" >>, Undefined } :
       Set(i, IF Falsy(a) THEN Return(Dismiss(run[i]))
              ELSE CASE run[i].opt = "drop_column" ->
                          Goto([run[i] EXCEPT !.fields = << Field(a, << "drop" >>) >>],
                               "migration.createMigrationFile")
                     [] run[i].opt = "add_foreign" ->
                          Shown([run[i] EXCEPT !.fields = << Field(a, << "foreignId" >>) >>],
                                "migration.referencedTable")
                     [] OTHER ->
                          Shown([run[i] EXCEPT !.fields = << Field(a, << "index" >>) >>],
                                "migration.indexType"))
  /\ UNCHANGED << project, fs, now, started, calls >>

\* if (!referencedTable) return; fields.push({ name, type: "foreignId",
\* constrained: referencedTable, cascadeOnDelete: true })
MigrationReferencedTable(i) ==
  /\ run[i].pc = "migration.referencedTable"
  /\ MayRun(i)
  /\ \E a \in { << "users" >>, Undefined } :
       Set(i, IF Falsy(a) THEN Return(Dismiss([run[i] EXCEPT !.fields = <<>>]))
              ELSE Goto([run[i] EXCEPT !.fields[1].constrained = a,
                                       !.fields[1].cascadeOnDelete = TRUE],
                        "migration.createMigrationFile"))
  /\ UNCHANGED << project, fs, now, started, calls >>

\* if (!indexType) return; fields.push({ name: columnNames, type: "index",
\* indexType: indexType.value })
MigrationIndexType(i) ==
  /\ run[i].pc = "migration.indexType"
  /\ MayRun(i)
  /\ \E a \in { << "unique" >>, Undefined } :
       Set(i, IF Falsy(a) THEN Return(Dismiss([run[i] EXCEPT !.fields = <<>>]))
              ELSE Goto([run[i] EXCEPT !.fields[1].indexType = a],
                        "migration.createMigrationFile"))
  /\ UNCHANGED << project, fs, now, started, calls >>

createMigrationFile(i) ==
  /\ Pipeline(i, "migration.createMigrationFile", "migration",
       WriteAll(fs,
         << << MigrationFilePath(
                 MigrationName(run[i].opt, run[i].name, MigrationColumn(run[i])), now),
               MigrationContent(run[i].opt, run[i].name, run[i].fields) >> >>),
       "migration.success")
  /\ UNCHANGED calls

MigrationSuccess(i) ==
  /\ run[i].pc = "migration.success"
  /\ MayRun(i)
  /\ Set(i, Return(Message(run[i], "success")))
  /\ UNCHANGED << project, fs, now, started, calls >>

MigrationStep(i) ==
  \/ MigrationType(i)
  \/ MigrationTableName(i)
  \/ MigrationUseBuilder(i)
  \/ MigrationFieldsInput(i)
  \/ MigrationTableOptions(i)
  \/ MigrationColumnName(i)
  \/ MigrationReferencedTable(i)
  \/ MigrationIndexType(i)
  \/ createMigrationFile(i)
  \/ MigrationSuccess(i)


\* ------------------------------------------------ routes.js: modular routes
\* generateRouteFile, the prompts of its own: each returns on a dismissal
RouteFileModuleName(i) ==
  /\ run[i].pc = "routeFile.moduleName"
  /\ MayRun(i)
  /\ \E a \in Names \cup { Undefined } :
       Set(i, IF Falsy(a) THEN Return(Dismiss(run[i]))
              ELSE Shown([run[i] EXCEPT !.name = a], "routeFile.routeType"))
  /\ UNCHANGED << project, fs, now, started, calls >>

RouteFileRouteType(i) ==
  /\ run[i].pc = "routeFile.routeType"
  /\ MayRun(i)
  /\ \E a \in { "web", "api", "<undefined>" } :
       Set(i, IF a = "<undefined>" THEN Return(Dismiss(run[i]))
              ELSE Shown([run[i] EXCEPT !.opt = a], "routeFile.controllerName"))
  /\ UNCHANGED << project, fs, now, started, calls >>

\* the controller name, then selectRoutesToCreate
RouteFileControllerName(i) ==
  /\ run[i].pc = "routeFile.controllerName"
  /\ MayRun(i)
  /\ \E accepted \in BOOLEAN :
       Set(i, IF ~accepted THEN Return(Dismiss(run[i]))
              ELSE Shown(run[i], "routeFile.selectedRoutes"))
  /\ UNCHANGED << project, fs, now, started, calls >>

\* if (!selectedRoutes || selectedRoutes.length === 0) return; then
\* configureRouteOptions asks for the prefix
RouteFileSelectedRoutes(i) ==
  /\ run[i].pc = "routeFile.selectedRoutes"
  /\ MayRun(i)
  /\ \/ Set(i, Return(Dismiss(run[i])))
     \/ \E a \in { {}, { "index", "show" } } :
          Set(i, IF a = {} THEN Return(run[i])
                 ELSE Shown([run[i] EXCEPT !.comps = a], "routeFile.prefix"))
  /\ UNCHANGED << project, fs, now, started, calls >>

\* configureRouteOptions: options.prefix = prefix || ""
RouteFilePrefix(i) ==
  /\ run[i].pc = "routeFile.prefix"
  /\ MayRun(i)
  /\ \E a \in { <<>>, << "admin" >>, Undefined } :
       Set(i, Shown(IF a = Undefined THEN Dismiss(run[i]) ELSE run[i],
                    "routeFile.middleware"))
  /\ UNCHANGED << project, fs, now, started, calls >>

\* configureRouteOptions: if (middlewareOptions) { options.middleware = ... }
RouteFileMiddleware(i) ==
  /\ run[i].pc = "routeFile.middleware"
  /\ MayRun(i)
  /\ \E a \in { "auth", "<undefined>" } :
       Set(i, Shown(IF a = "<undefined>" THEN Dismiss(run[i]) ELSE run[i],
                    "routeFile.namePrefix"))
  /\ UNCHANGED << project, fs, now, started, calls >>

\* configureRouteOptions: const namePrefix = await showInputBox(...);
\* options.name = name || "" reads a variable that is declared nowhere: the
\* ReferenceError is thrown outside the try of generateRouteFile, whose promise
\* is rejected before anything is written and without a message of its own
RouteFileNamePrefix(i) ==
  /\ run[i].pc = "routeFile.namePrefix"
  /\ MayRun(i)
  /\ \E a \in { <<>>, Undefined } :
       Set(i, Return([(IF a = Undefined THEN Dismiss(run[i]) ELSE run[i])
                        EXCEPT !.failed = @ \cup { "configureRouteOptions" }]))
  /\ UNCHANGED << project, fs, now, started, calls >>

RouteFileStep(i) ==
  \/ RouteFileModuleName(i)
  \/ RouteFileRouteType(i)
  \/ RouteFileControllerName(i)
  \/ RouteFileSelectedRoutes(i)
  \/ RouteFilePrefix(i)
  \/ RouteFileMiddleware(i)
  \/ RouteFileNamePrefix(i)

\* const moduleName = await showInputBox(...); if (!moduleName) return;
ResourceModuleName(i) ==
  /\ run[i].pc = "resource.moduleName"
  /\ MayRun(i)
  /\ \E a \in Names \cup { Undefined } :
       Set(i, IF Falsy(a) THEN Return(Dismiss(run[i]))
              ELSE Shown([run[i] EXCEPT !.name = a], "resource.routeType"))
  /\ UNCHANGED << project, fs, now, started, calls >>

\* const routeType = await showQuickPick(...); if (!routeType) return;
ResourceRouteType(i) ==
  /\ run[i].pc = "resource.routeType"
  /\ MayRun(i)
  /\ \E a \in { "web", "api", "<undefined>" } :
       Set(i, IF a = "<undefined>" THEN Return(Dismiss(run[i]))
              ELSE Goto([run[i] EXCEPT !.opt = a], "resource.createRouteFile"))
  /\ UNCHANGED << project, fs, now, started, calls >>

createRouteFile(i) ==
  /\ Pipeline(i, "resource.createRouteFile", "routeFile",
       WriteAll(fs, << << ModuleRoutePath(run[i].name, run[i].opt),
                          << "routes:resource", run[i].opt >> \o run[i].name >> >>),
       "resource.updateRouteServiceProvider")
  /\ UNCHANGED calls

\* the provider is created from the template when it is missing; then the
\* include of the route file is added unless its path is already there
updateRouteServiceProvider(i) ==
  /\ run[i].pc = "resource.updateRouteServiceProvider"
  /\ LET routeFilePath == ModuleRoutePath(run[i].name, run[i].opt)
         created == IF Exists(ProviderPath) THEN <<>>
                    ELSE << << ProviderPath, ProviderTemplate >> >>
         content == IF Exists(ProviderPath) THEN fs[ProviderPath] ELSE ProviderTemplate
         outcome == ProviderOutcome(content, routeFilePath)
         updated == IF outcome = "write"
                      THEN << << ProviderPath,
                                 ProviderContent(content, run[i].name, run[i].opt,
                                                 routeFilePath) >> >>
                      ELSE <<>>
     IN  PipelineNote(i, "resource.updateRouteServiceProvider", "provider",
           WriteAll(fs, created \o updated),
           IF outcome = "warn" THEN "warning" ELSE "",
           "resource.addRequireToMainRouteFile")
  /\ calls' = Counted("updateRouteServiceProvider", run[i].name)

\* no main route file: a silent return
addRequireToMainRouteFile(i) ==
  Register(i, "resource.addRequireToMainRouteFile", "require",
    "addRequireToMainRouteFile", MainRouteFile(run[i].opt), "",
    RequireWrites(Content(MainRouteFile(run[i].opt)),
                  ModuleRoutePath(run[i].name, run[i].opt)),
    RequireContent(Content(MainRouteFile(run[i].opt)), run[i].name,
                   ModuleRoutePath(run[i].name, run[i].opt)),
    "resource.success")

ResourceSuccess(i) ==
  /\ run[i].pc = "resource.success"
  /\ MayRun(i)
  /\ Set(i, Return(Message(run[i], "success")))
  /\ UNCHANGED << project, fs, now, started, calls >>

ResourceStep(i) ==
  \/ ResourceModuleName(i)
  \/ ResourceRouteType(i)
  \/ createRouteFile(i)
  \/ updateRouteServiceProvider(i)
  \/ addRequireToMainRouteFile(i)
  \/ ResourceSuccess(i)



\* ------------------------------------------------ fields: the type tables
\* the generators that turn a fields text into per-field lines: the Vue/React
\* CRUD generators ("spa"), the legacy CRUD generator ("crud"), the migration
\* builder with manual entry ("manual") and with the interactive builder
\* ("builder")

\* properties every JavaScript object literal inherits from Object.prototype,
\* as the text they become inside a template string
Inherited ==
  [ constructor |-> << "function Object() { [native code] }" >>,
    __proto__ |-> << "[object Object]" >> ]

\* map[key] for an object literal map: an own property, an inherited one, or
\* undefined
JsGet(map, key) ==
  IF Len(key) = 1 /\ key[1] \in DOMAIN map THEN map[key[1]]
  ELSE IF Len(key) = 1 /\ key[1] \in DOMAIN Inherited THEN Inherited[key[1]]
  ELSE Undefined

\* a || b
Or(a, b) == IF Falsy(a) THEN b ELSE a

\* crud-spa.js getMigrationType
SpaTypeMap ==
  [ string |-> << "string" >>, text |-> << "text" >>, integer |-> << "integer" >>,
    bigint |-> << "bigInteger" >>, decimal |-> << "decimal" >>, float |-> << "float" >>,
    double |-> << "double" >>, boolean |-> << "boolean" >>, date |-> << "date" >>,
    datetime |-> << "dateTime" >>, timestamp |-> << "timestamp" >>, json |-> << "json" >> ]

getMigrationType(type) == Or(JsGet(SpaTypeMap, type), << "string" >>)

\* crud-spa.js getValidationRules
TypeRules ==
  [ string |-> << "required|string|max:255" >>, text |-> << "required|string" >>,
    integer |-> << "required|integer" >>, bigint |-> << "required|integer" >>,
    decimal |-> << "required|numeric" >>, float |-> << "required|numeric" >>,
    double |-> << "required|numeric" >>, boolean |-> << "required|boolean" >>,
    date |-> << "required|date" >>, datetime |-> << "required|date" >>,
    timestamp |-> << "required|date" >>, json |-> << "required|array" >> ]

\* an update rule looked up on its own, without the create rule
getValidationRulesApart(type, isUpdate) ==
  IF isUpdate
    THEN << "sometimes|" >> \o
         (IF Len(type) = 1 /\ type[1] \in DOMAIN TypeRules
            THEN TypeRules[type[1]] ELSE << "string|max:255" >>)
    ELSE Or(JsGet(TypeRules, type), << "required|string|max:255" >>)

getValidationRules(type, isUpdate) ==
  (IF isUpdate THEN << "sometimes|" >> ELSE <<>>) \o
  Or(JsGet(TypeRules, type), << "required|string|max:255" >>)

\* crud-spa.js getInputType
SpaInputMap ==
  [ string |-> << "text" >>, text |-> << "textarea" >>, integer |-> << "number" >>,
    bigint |-> << "number" >>, decimal |-> << "number" >>, float |-> << "number" >>,
    double |-> << "number" >>, boolean |-> << "checkbox" >>, date |-> << "date" >>,
    datetime |-> << "datetime-local" >>, timestamp |-> << "datetime-local" >> ]

getInputType(fieldType) == Or(JsGet(SpaInputMap, fieldType), << "text" >>)

\* views.js getMigrationType, getMigrationCast and getInputType
CrudTypes ==
  [ string |-> << "string" >>, text |-> << "text" >>, integer |-> << "integer" >>,
    decimal |-> << "decimal" >>, boolean |-> << "boolean" >>, date |-> << "date" >>,
    datetime |-> << "dateTime" >>, timestamp |-> << "timestamp" >>, json |-> << "json" >> ]

CrudMigrationType(type) == Or(JsGet(CrudTypes, type), << "string" >>)

CrudCasts ==
  [ boolean |-> << "boolean" >>, integer |-> << "integer" >>, decimal |-> << "decimal" >>,
    date |-> << "date" >>, datetime |-> << "datetime" >>, timestamp |-> << "datetime" >>,
    json |-> << "array" >> ]

getMigrationCast(type) == Or(JsGet(CrudCasts, type), << "string" >>)

CrudInputTypes ==
  [ string |-> << "text" >>, text |-> << "textarea" >>, integer |-> << "number" >>,
    decimal |-> << "number" >>, boolean |-> << "checkbox" >>, date |-> << "date" >>,
    datetime |-> << "datetime-local" >>, email |-> << "email" >>,
    password |-> << "password" >> ]

CrudInputType(type) == Or(JsGet(CrudInputTypes, type), << "text" >>)

\* the per-field lines of the legacy CRUD generator: createMigration, the
\* $casts of createModel and the form views
CrudColumnLine(field) ==
  << "$table->" >> \o CrudMigrationType(field.type) \o << "('" >> \o field.name \o << "');" >>

CrudCastLine(field) ==
  << "'" >> \o field.name \o << "' => '" >> \o getMigrationCast(field.type) \o << "'" >>

CrudInputLine(field) ==
  << "<input type=\"" >> \o CrudInputType(field.type) \o << "\" id=\"" >> \o field.name \o
  << "\" />" >>

\* the table "Field Types Supported" of the documentation of the Vue/React
\* CRUD generators: the Blueprint method of the documented column type, the
\* documented validation and the documented input type
FieldTypesSupported ==
  [ string |-> [migration |-> "string", validation |-> "string|max:255", input |-> "text"],
    text |-> [migration |-> "text", validation |-> "string", input |-> "textarea"],
    integer |-> [migration |-> "integer", validation |-> "integer", input |-> "number"],
    bigint |-> [migration |-> "bigInteger", validation |-> "integer", input |-> "number"],
    decimal |-> [migration |-> "decimal", validation |-> "numeric", input |-> "number"],
    float |-> [migration |-> "float", validation |-> "numeric", input |-> "number"],
    double |-> [migration |-> "double", validation |-> "numeric", input |-> "number"],
    boolean |-> [migration |-> "boolean", validation |-> "boolean", input |-> "checkbox"],
    date |-> [migration |-> "date", validation |-> "date", input |-> "date"],
    datetime |-> [migration |-> "dateTime", validation |-> "date",
                  input |-> "datetime-local"],
    timestamp |-> [migration |-> "timestamp", validation |-> "date",
                   input |-> "datetime-local"],
    json |-> [migration |-> "json", validation |-> "array", input |-> "textarea"] ]

\* the per-field lines of the files the Vue/React CRUD generators write:
\* createMigration, createFormRequests (store and update) and the form
\* component
SpaColumnLine(field) ==
  << "$table->" >> \o getMigrationType(field.type) \o << "('" >> \o field.name \o << "');" >>

SpaRuleLine(field, isUpdate) ==
  << "'" >> \o field.name \o << "' => '" >> \o getValidationRules(field.type, isUpdate) \o
  << "'," >>

SpaInputLine(field) ==
  << "<input type=\"" >> \o getInputType(field.type) \o << "\" id=\"" >> \o field.name \o
  << "\" />" >>

\* --------------------------------------------- fields: the text generators
\* the types of the taxonomy, and two that are not in it
TypeNames ==
  { "string", "text", "integer", "bigint", "bigInteger", "tinyInteger", "decimal",
    "float", "double", "boolean", "date", "datetime", "dateTime", "timestamp", "time",
    "json", "enum", "foreignId", "uuid", "not_a_type", "constructor" }

\* answers to a "fields" prompt
FieldTexts ==
  { << "weird_field", ":", t >> : t \in TypeNames } \cup
  { << "title" >>,
    << "title", ":", "string", ":", "unique" >>,
    << "title", ":", "string", ":", "nullable" >>,
    << "price", ":", "decimal", ":", "8", ",", "2" >>,
    << "price", ":", "decimal", ":", "10", ",", "4" >>,
    << "price", ":", "decimal", ":", "10" >>,
    << "user_id", ":", "foreignId", ",", " ", "body", ":", "text" >>,
    << "name", ":", "string", ",", "price", ":", "decimal", ":", "8", ",", "2", ",",
       "in_stock", ":", "boolean" >> }

TextGenerators == { "spa", "crud", "manual" }

Fld(r) == fld' = r /\ UNCHANGED << project, fs, now, started, run, calls >>

Lines(fields, Line(_)) == [k \in 1..Len(fields) |-> Line(fields[k])]

\* const parsedFields = parseFields(fields), in generateVueCRUD,
\* generateReactCRUD and generateCRUD
FieldsParse ==
  /\ fld.gen \in { "spa", "crud" }
  /\ fld.pc = "parse"
  /\ Fld([fld EXCEPT !.fields = parseFields(fld.input), !.pc = "emit.schema"])

\* the up() of the create-table migration of the CRUD generators: the
\* primary key, the joined field lines, the timestamps
CreateUpContent(tableName, lines) ==
  << "Schema::create('" >> \o tableName \o
  << "', function (Blueprint $table) {", NL, "$table->id();", NL >> \o
  JoinWith(lines, NL) \o << NL, "$table->timestamps();", NL, "});" >>

\* crud-spa.js createMigration: fieldDefinitions, and the file around them
SpaEmitMigration ==
  /\ fld.gen = "spa"
  /\ fld.pc = "emit.schema"
  /\ Fld([fld EXCEPT !.out.schema = Lines(fld.fields, SpaColumnLine),
                     !.up = CreateUpContent(fld.table, Lines(fld.fields, SpaColumnLine)),
                     !.pc = "emit.rules"])

\* crud-spa.js createFormRequests: validationRules and updateValidationRules
SpaEmitRequests ==
  /\ fld.gen = "spa"
  /\ fld.pc = "emit.rules"
  /\ Fld([fld EXCEPT
            !.out.create = [k \in 1..Len(fld.fields) |-> SpaRuleLine(fld.fields[k], FALSE)],
            !.out.update = [k \in 1..Len(fld.fields) |-> SpaRuleLine(fld.fields[k], TRUE)],
            !.pc = "emit.form"])

\* crud-spa.js generateVueFormComponent / generateReactFormComponent: formFields
SpaEmitForm ==
  /\ fld.gen = "spa"
  /\ fld.pc = "emit.form"
  /\ Fld([fld EXCEPT !.out.input = Lines(fld.fields, SpaInputLine), !.pc = "done"])

\* views.js createModel ($casts), createMigration (fieldsCode), createViews
CrudEmitModel ==
  /\ fld.gen = "crud"
  /\ fld.pc = "emit.schema"
  /\ Fld([fld EXCEPT !.out.cast = Lines(fld.fields, CrudCastLine), !.pc = "emit.migration"])

CrudEmitMigration ==
  /\ fld.gen = "crud"
  /\ fld.pc = "emit.migration"
  /\ Fld([fld EXCEPT !.out.schema = Lines(fld.fields, CrudColumnLine),
                     !.up = CreateUpContent(fld.table, Lines(fld.fields, CrudColumnLine)),
                     !.pc = "emit.form"])

CrudEmitViews ==
  /\ fld.gen = "crud"
  /\ fld.pc = "emit.form"
  /\ Fld([fld EXCEPT !.out.input = Lines(fld.fields, CrudInputLine), !.pc = "done"])

\* part_003 generateMigration: fields = parseFieldsManual(fieldsInput)
ManualParse ==
  /\ fld.gen = "manual"
  /\ fld.pc = "parse"
  /\ Fld([fld EXCEPT !.fields = parseFieldsManual(fld.input), !.pc = "tableOptions"])

\* part_003 generateMigration: const tableOptions = await showQuickPick(...,
\* { canPickMany: true }); the file is created whatever the answer was
TableOptions ==
  /\ fld.pc = "tableOptions"
  /\ \/ Fld([fld EXCEPT !.asked = "dismissed", !.pc = "emit.definitions"])
     \/ \E a \in { {}, { "timestamps" } } :
          Fld([fld EXCEPT !.asked = "answered", !.options = a, !.pc = "emit.definitions"])

\* part_003 createMigrationFile: fields.map((field) => generateFieldDefinition(field)),
\* the special fields of the table options being the last of them
EmitDefinitions ==
  /\ fld.pc = "emit.definitions"
  /\ Fld([fld EXCEPT !.out.schema = Lines(fld.fields, generateFieldDefinition),
                     !.up = UpContent(fld.type, fld.table,
                                      fld.fields \o SpecialFields(fld.options)),
                     !.pc = "done"])

\* ------------------------------------------ fields: the interactive builder
\* the types buildSingleField offers
BuilderTypes ==
  { "string", "text", "integer", "bigInteger", "tinyInteger", "boolean", "decimal",
    "float", "double", "date", "dateTime", "timestamp", "time", "json", "enum",
    "foreignId" }

\* the modifiers buildSingleField offers, and the selections of at most
\* MaxPicked of them, in the order the user ticked them
ModifierNames == { "nullable", "unique", "default", "unsigned", "index", "comment" }

MaxPicked == 3

Picks ==
  { s \in UNION { [1..n -> ModifierNames] : n \in 0..MaxPicked } :
      \A a, b \in DOMAIN s : a # b => s[a] # s[b] }

\* modifiers.forEach((mod) => { field[mod.value] = true; })
RECURSIVE SetPicked(_, _)
SetPicked(field, picks) ==
  IF picks = <<>> THEN field
  ELSE SetPicked([field EXCEPT ![picks[1]] = TRUE, !.order = @ \o << picks[1] >>],
                 Tail(picks))

Picked(m) == \E k \in DOMAIN fld.picked : fld.picked[k] = m

\* the builder loops: buildFields of the migration generator and
\* defineRelationships of the model generator
LoopGenerators == { "buildFields", "defineRelationships" }

\* the types and the modifier selections a user of the loop answers with
LoopTypes == { "string", "decimal", "enum", "foreignId" }

LoopPicks == { <<>>, << "default" >>, << "comment" >> }

TypesOffered == IF fld.gen = "buildFields" THEN LoopTypes ELSE BuilderTypes

PicksOffered == IF fld.gen = "buildFields" THEN LoopPicks ELSE Picks

\* at most MaxEntries entries are entered in one loop
MaxEntries == 2

\* a prompt has resolved: it is remembered whether one was dismissed
Seen(wasDismissed, r) == [r EXCEPT !.dismissed = @ \/ wasDismissed]

\* the loop is left (break, or addMore = false) and the entries are returned
Returned(r) == [r EXCEPT !.pc = "returned"]

\* buildSingleField returns the field.  In the loop buildFields pushes it and
\* asks "Add another field?"; it is an entry specified in full when no prompt
\* was dismissed so far.  Called for one column, generateMigration goes on to
\* createMigrationFile
Built(r) ==
  IF r.gen = "buildFields"
    THEN [r EXCEPT !.fields = @ \o << r.field >>,
                   !.specified = IF r.dismissed THEN @ ELSE @ \o << r.field >>,
                   !.pc = "loop.another"]
    ELSE [r EXCEPT !.fields = << r.field >>, !.pc = "emit.definitions"]

\* const fieldType = await showQuickPick(...); if (!fieldType) return null;
BuildType ==
  /\ fld.pc = "build.type"
  /\ \/ Fld(Seen(TRUE, IF fld.gen = "buildFields" THEN Returned(fld)
                         ELSE [fld EXCEPT !.pc = "emit.definitions"]))
     \/ \E t \in TypesOffered :
          Fld([fld EXCEPT
                 !.field = Field(fld.input, << t >>),
                 !.pc = CASE t = "string" -> "build.length"
                          [] t = "decimal" -> "build.precision"
                          [] t = "enum" -> "build.values"
                          [] t = "foreignId" -> "build.constrained"
                          [] OTHER -> "build.modifiers"])

\* if (length) field.length = parseInt(length);
BuildLength ==
  /\ fld.pc = "build.length"
  /\ \E a \in { Undefined, <<>>, << "255" >>, << "abc" >> } :
       Fld(Seen(a = Undefined,
                [fld EXCEPT !.field.length = IF Falsy(a) THEN @ ELSE ParseInt(a),
                            !.pc = "build.modifiers"]))

\* const precision = await showInputBox({ prompt: "Precision ..." });
BuildPrecision ==
  /\ fld.pc = "build.precision"
  /\ \E a \in { Undefined, << "10" >>, << "0" >> } :
       Fld(Seen(a = Undefined, [fld EXCEPT !.precision = a, !.pc = "build.scale"]))

\* a builder that leaves out what the user did not enter
BuildScaleNoDefault ==
  /\ fld.pc = "build.scale"
  /\ \E scale \in { Undefined, << "4" >>, << "0" >> } :
       Fld(Seen(scale = Undefined, [fld EXCEPT
              !.scale = scale,
              !.field.precision = IF Falsy(fld.precision) THEN @ ELSE ParseInt(fld.precision),
              !.field.scale = IF Falsy(scale) THEN @ ELSE ParseInt(scale),
              !.pc = "build.modifiers"]))

\* const scale = await showInputBox({ prompt: "Scale ..." });
\* field.precision = precision ? parseInt(precision) : 8;
\* field.scale = scale ? parseInt(scale) : 2;
BuildScale ==
  /\ fld.pc = "build.scale"
  /\ \E scale \in { Undefined, << "4" >>, << "0" >> } :
       Fld(Seen(scale = Undefined, [fld EXCEPT
              !.scale = scale,
              !.field.precision = IF Falsy(fld.precision) THEN << "8" >>
                                  ELSE ParseInt(fld.precision),
              !.field.scale = IF Falsy(scale) THEN << "2" >> ELSE ParseInt(scale),
              !.pc = "build.modifiers"]))

\* if (values) field.values = values.split(",").map((v) => v.trim());
BuildValues ==
  /\ fld.pc = "build.values"
  /\ \E a \in { Undefined, << "pending", ",", " ", "active" >> } :
       Fld(Seen(a = Undefined, [fld EXCEPT
              !.field.values =
                 IF Falsy(a) THEN @
                 ELSE JoinWith([k \in 1..Len(SplitOn(a, ",")) |-> Trim(SplitOn(a, ",")[k])],
                               ","),
              !.pc = "build.modifiers"]))

\* if (constrainedTable) { field.constrained = constrainedTable; ... }
BuildConstrained ==
  /\ fld.pc = "build.constrained"
  /\ \E a \in { Undefined, <<>>, << "users" >> } :
       Fld(Seen(a = Undefined,
                IF Falsy(a) THEN [fld EXCEPT !.pc = "build.modifiers"]
                ELSE [fld EXCEPT !.field.constrained = a,
                                 !.field.order = @ \o << "constrained" >>,
                                 !.pc = "build.cascade"]))

\* if (cascade?.value) field.cascadeOnDelete = true;
BuildCascade ==
  /\ fld.pc = "build.cascade"
  /\ \E a \in { "Cascade on delete", "No cascade", "<undefined>" } :
       Fld(Seen(a = "<undefined>",
                IF a = "Cascade on delete"
                  THEN [fld EXCEPT !.cascade = a,
                                   !.field.cascadeOnDelete = TRUE,
                                   !.field.order = @ \o << "cascadeOnDelete" >>,
                                   !.pc = "build.modifiers"]
                  ELSE [fld EXCEPT !.cascade = a, !.pc = "build.modifiers"]))

\* const modifiers = await showQuickPick([...], { canPickMany: true });
\* if (modifiers) { modifiers.forEach(...); ... } return field;
BuildModifiers ==
  /\ fld.pc = "build.modifiers"
  /\ \/ Fld(Built(Seen(TRUE, fld)))
     \/ \E picks \in PicksOffered :
          LET r == [fld EXCEPT !.field = SetPicked(@, picks), !.picked = picks]
              has(m) == \E k \in DOMAIN picks : picks[k] = m
          IN  Fld(IF has("default") THEN [r EXCEPT !.pc = "build.default"]
                  ELSE IF has("comment") THEN [r EXCEPT !.pc = "build.comment"]
                  ELSE Built(r))

\* if (defaultValue !== undefined) field.defaultValue = defaultValue;
BuildDefault ==
  /\ fld.pc = "build.default"
  /\ \E a \in { Undefined, <<>>, << "0" >>, << "null" >> } :
       LET r == Seen(a = Undefined, [fld EXCEPT !.field.defaultValue = a])
       IN  Fld(IF Picked("comment") THEN [r EXCEPT !.pc = "build.comment"] ELSE Built(r))

\* if (commentText) field.commentText = commentText;
BuildComment ==
  /\ fld.pc = "build.comment"
  /\ \E a \in { Undefined, <<>>, << "note" >> } :
       Fld(Built(Seen(a = Undefined,
                      [fld EXCEPT !.field.commentText = IF Falsy(a) THEN @ ELSE a])))

\* ------------------------------------------------ fields: the builder loops
\* buildFields: const fieldName = await showInputBox(...);
\* if (!fieldName) break; const field = await buildSingleField(fieldName);
LoopFieldNames == { << "price" >>, << "status" >> }

BuildFieldName ==
  /\ fld.gen = "buildFields"
  /\ fld.pc = "loop.name"
  /\ \E a \in LoopFieldNames \cup { <<>>, Undefined } :
       Fld(Seen(a = Undefined,
                IF Falsy(a) THEN Returned(fld)
                ELSE [fld EXCEPT !.input = a, !.pc = "build.type"]))

\* const another = await showQuickPick(["Yes, add another field", "No, finish"]);
\* addMore = another?.value ?? false;
BuildAnother ==
  /\ fld.gen = "buildFields"
  /\ fld.pc = "loop.another"
  /\ \E a \in { "Yes", "No", "<undefined>" } :
       /\ a = "Yes" => Len(fld.fields) < MaxEntries
       /\ Fld(Seen(a = "<undefined>",
                   IF a = "Yes" THEN [fld EXCEPT !.pc = "loop.name"] ELSE Returned(fld)))

\* defineRelationships: const relType = await showQuickPick(...);
\* if (!relType) break;
RelationshipType ==
  /\ fld.gen = "defineRelationships"
  /\ fld.pc = "rel.type"
  /\ \E a \in { "hasMany", "belongsTo", "<undefined>" } :
       Fld(Seen(a = "<undefined>",
                IF a = "<undefined>" THEN Returned(fld)
                ELSE [fld EXCEPT !.field = [type |-> a, model |-> <<>>, method |-> <<>>],
                                 !.pc = "rel.model"]))

\* const relatedModel = await showInputBox(...); if (!relatedModel) break;
RelationshipModel ==
  /\ fld.gen = "defineRelationships"
  /\ fld.pc = "rel.model"
  /\ \E a \in { << "Post" >>, <<>>, Undefined } :
       Fld(Seen(a = Undefined,
                IF Falsy(a) THEN Returned(fld)
                ELSE [fld EXCEPT !.field.model = a, !.pc = "rel.method"]))

\* const methodName = await showInputBox(...); if (!methodName) break;
\* relationships.push({ type, model, method });
RelationshipMethod ==
  /\ fld.gen = "defineRelationships"
  /\ fld.pc = "rel.method"
  /\ \E a \in { << "posts" >>, << "author" >>, <<>>, Undefined } :
       Fld(Seen(a = Undefined,
                IF Falsy(a) THEN Returned(fld)
                ELSE LET entry == [fld.field EXCEPT !.method = a]
                     IN  [fld EXCEPT !.field = entry,
                                     !.fields = @ \o << entry >>,
                                     !.specified = IF fld.dismissed THEN @
                                                   ELSE @ \o << entry >>,
                                     !.pc = "rel.another"]))

\* const another = await showQuickPick(["Yes", "No"]);
\* addMore = another?.value ?? false;
RelationshipAnother ==
  /\ fld.gen = "defineRelationships"
  /\ fld.pc = "rel.another"
  /\ \E a \in { "Yes", "No", "<undefined>" } :
       /\ a = "Yes" => Len(fld.fields) < MaxEntries
       /\ Fld(Seen(a = "<undefined>",
                   IF a = "Yes" THEN [fld EXCEPT !.pc = "rel.type"] ELSE Returned(fld)))

\* a builder loop has been entered
InitLoops ==
  /\ project = "standard"
  /\ fs = InitialFiles(project)
  /\ now = 0
  /\ started = 0
  /\ run = [i \in Slots |-> Idle]
  /\ calls = [k \in RegFns \X Names |-> 0]
  /\ \/ fld = [NoField EXCEPT !.gen = "buildFields", !.pc = "loop.name"]
     \/ fld = [NoField EXCEPT !.gen = "defineRelationships", !.pc = "rel.type"]

NextLoops ==
  \/ BuildFieldName
  \/ BuildType
  \/ BuildLength
  \/ BuildPrecision
  \/ BuildScale
  \/ BuildValues
  \/ BuildConstrained
  \/ BuildCascade
  \/ BuildModifiers
  \/ BuildDefault
  \/ BuildComment
  \/ BuildAnother
  \/ RelationshipType
  \/ RelationshipModel
  \/ RelationshipMethod
  \/ RelationshipAnother

SpecLoops == InitLoops /\ [][NextLoops]_vars

\* ------------------------------------------------ fields: the specification
\* a fields text has been entered in one of the text generators, or a field
\* name in the interactive builder
InitFields ==
  /\ project = "standard"
  /\ fs = InitialFiles(project)
  /\ now = 0
  /\ started = 0
  /\ run = [i \in Slots |-> Idle]
  /\ calls = [k \in RegFns \X Names |-> 0]
  /\ \/ \E g \in TextGenerators : \E t \in FieldTexts :
          fld = [NoField EXCEPT !.gen = g, !.input = t, !.pc = "parse",
                                !.table = << "posts" >>,
                                !.type = IF g = "manual" THEN "create" ELSE ""]
     \/ fld = [NoField EXCEPT !.gen = "builder", !.input = << "price" >>,
                              !.table = << "posts" >>, !.type = "add_column",
                              !.pc = "build.type"]

NextFields ==
  \/ FieldsParse
  \/ SpaEmitMigration
  \/ SpaEmitRequests
  \/ SpaEmitForm
  \/ CrudEmitModel
  \/ CrudEmitMigration
  \/ CrudEmitViews
  \/ ManualParse
  \/ TableOptions
  \/ EmitDefinitions
  \/ BuildType
  \/ BuildLength
  \/ BuildPrecision
  \/ BuildScale
  \/ BuildValues
  \/ BuildConstrained
  \/ BuildCascade
  \/ BuildModifiers
  \/ BuildDefault
  \/ BuildComment

SpecFields == InitFields /\ [][NextFields]_vars

\* ------------------------------------------------------ the whole extension
Step(i) ==
  \/ SpaStep(i)
  \/ ApiStep(i)
  \/ CrudStep(i)
  \/ ArtisanStep(i)
  \/ MigrationStep(i)
  \/ RouteFileStep(i)
  \/ ResourceStep(i)

\* every command, one at a time: the user waits for a command to end before
\* the next is invoked
Next ==
  \/ Tick
  \/ \E c \in Commands : Alone(1) /\ Start(1, c, MaxRuns)
  \/ Step(1)

Spec == Init /\ [][Next]_vars

\* commands invoked whenever the user can invoke one: a quick input is
\* exclusive, so no other command shows a prompt, but another command may
\* wait for its child process
ConcCommands == SpaCommands \cup ArtisanCommands

NoPromptOpen(i) == \A j \in Slots \ { i } : Free(j) \/ run[j].pc = "artisan.exec"

NextConc ==
  \/ Tick
  \/ \E i \in Slots : \E c \in ConcCommands : NoPromptOpen(i) /\ Start(i, c, MaxRuns)
  \/ \E i \in Slots : SpaStep(i)
  \/ \E i \in Slots : ArtisanStep(i)

SpecConc == Init /\ [][NextConc]_vars


\* ------------------------------------------------------------- properties
\* the prompt that asks for the entity (model, controller, table, module) name
NamePrompts ==
  { "spa.modelName", "api.modelName", "crud.modelName", "makeModel.modelName",
    "makeController.controllerName", "migration.tableName", "routeFile.moduleName",
    "resource.moduleName" }

\* the artifact steps a command was asked for
SpaSteps ==
  { "model", "migration", "controller", "resource", "requests", "components", "hooks",
    "apiRoutes", "clientRoutes" }

Requested(r) ==
  CASE r.cmd \in SpaCommands -> SpaSteps
    [] r.cmd = "generateAPI" -> r.comps
    [] OTHER -> {}

\* the name-keyed files of the SPA generators and what run r renders into them
SpaArtifacts(r) ==
  LET ext == IF r.cmd = "generateVueCRUD" THEN ".vue" ELSE ".jsx"
  IN  { << SpaModelPath(r.name), Rendered("spa:model", r.name, r.fields) >>,
        << SpaControllerPath(r.name), Rendered("spa:controller", r.name, r.fields) >>,
        << SpaResourcePath(r.name), Rendered("spa:resource", r.name, r.fields) >>,
        << SpaRequestPath("Store", r.name),
           Rendered("spa:StoreRequest", r.name, r.fields) >>,
        << SpaRequestPath("Update", r.name),
           Rendered("spa:UpdateRequest", r.name, r.fields) >>,
        << SpaComponentPath(r.name, "List", ext),
           Rendered("spa:List" \o ext, r.name, r.fields) >>,
        << SpaComponentPath(r.name, "Form", ext),
           Rendered("spa:Form" \o ext, r.name, r.fields) >>,
        << SpaComponentPath(r.name, "Show", ext),
           Rendered("spa:Show" \o ext, r.name, r.fields) >> }

MigrationTimes(name) == { t \in 0..MaxTime : Exists(SpaMigrationPath(name, t)) }

\* C1: once the SPA generator has run its route registration twice for an
\* entity against an existing routes/api.php, the file holds exactly one
\* registration block for that entity
C1_ExactlyOneBlock ==
  \A n \in Names :
     calls[<< "spa.createAPIRoutes", n >>] >= 2 =>
        CountOcc(Content(ApiRoutesPath), SpaApiRouteLine(n)) = 1

\* C2: a repeated registration for an entity writes nothing: when
\* registerReactRoutes runs for an entity it has run for before, router.jsx and
\* every other file are afterwards what they were
C2_RepeatedRegistrationWritesNothing ==
  [][ \A i \in Slots :
        ( /\ run[i].cmd = "generateReactCRUD"
          /\ run[i].pc = "spa.registerRoutes"
          /\ run'[i].pc = "spa.success"
          /\ calls[<< "registerReactRoutes", run[i].name >>] >= 1 )
        => fs' = fs ]_vars

\* C3: a command whose entity-name prompt was dismissed has ended, has
\* written no file and has issued no external command
C3_NameCancelNoEffect ==
  \A i \in Slots :
     run[i].cancelledAt \in NamePrompts =>
        run[i].pc = "done" /\ run[i].wrote = {} /\ run[i].execs = 0

\* a command was cancelled at its name prompt in a workspace that an earlier
\* command has written to
C3_Witness ==
  \E i \in Slots :
     /\ run[i].cancelledAt \in NamePrompts
     /\ run[i].pc = "done"
     /\ fs # InitialFiles(project)

\* C4: after a dismissed prompt a command shows no further prompt, writes no
\* file and issues no external command
C4_NothingAfterDismissal == \A i \in Slots : ~run[i].afterCancel

\* C5: a command that has ended after a dismissed prompt has written no file
C5_NoPartialArtifacts ==
  \A i \in Slots :
     run[i].pc = "done" /\ run[i].dismissed => run[i].wrote = {}

\* C6: a generation command that has ended with a failed artifact step has
\* attempted every artifact step it was asked for
C6_OtherStepsAttempted ==
  \A i \in Slots :
     run[i].pc = "done" /\ run[i].failed \cap Requested(run[i]) # {} =>
        Requested(run[i]) \subseteq run[i].attempted

\* C7: a command that has ended after a failure of one of its steps has shown
\* a message
C7_EveryFailureShown ==
  \A i \in Slots :
     run[i].pc = "done" /\ run[i].failed # {} => run[i].msgs # {}

\* C8: a command whose artisan invocation exited non-zero has shown an error
\* message and no success message
C8_NonZeroExitIsError ==
  \A i \in Slots :
     "exec" \in run[i].failed =>
        "error" \in run[i].msgs /\ "success" \notin run[i].msgs

\* C9: at most one command is in progress at any time
C9_AtMostOneInProgress == Cardinality({ i \in Slots : ~Free(i) }) <= 1

OverwritePrompts ==
  { "api.createModel.overwrite", "api.createAPIController.overwrite",
    "api.createAPIResource.overwrite", "api.createAPICollection.overwrite" }

\* C11: a step of the API generator changes the content of an existing
\* per-artifact file (any file but the shared routes/api.php) only as the
\* answer Yes to its confirmation prompt
C11_AsksBeforeOverwrite ==
  [][ \A i \in Slots :
        IsApi(i) /\ run'[i] # run[i] =>
           \A p \in DOMAIN fs \ { ApiRoutesPath } :
              fs'[p] # fs[p] => run[i].pc \in OverwritePrompts ]_vars

\* the rule inside a line 'name' => 'rule', of a form request
RuleOf(line) == SubSeq(line, IndexOfTok(line, "' => '") + 2, Len(line) - 1)

\* the Vue/React CRUD generators have written both form requests
RulesEmitted == fld.gen = "spa" /\ fld.pc \in { "emit.form", "done" }

\* C12: in the form requests of the Vue/React CRUD generators, the update
\* rule of every field is "sometimes|" followed by the create rule of the same
\* field, whatever its type
C12_UpdateIsSometimesCreate ==
  RulesEmitted =>
     /\ Len(fld.out.update) = Len(fld.out.create)
     /\ \A k \in DOMAIN fld.out.update :
           RuleOf(fld.out.update[k]) = << "sometimes|" >> \o RuleOf(fld.out.create[k])

\* both form requests were written for a field whose type no table knows and
\* for a field whose type the rule table knows
C12_Witness ==
  /\ RulesEmitted
  /\ \E k \in DOMAIN fld.fields :
        /\ fld.fields[k].type \in { << "not_a_type" >>, << "decimal" >> }
        /\ RuleOf(fld.out.create[k]) # <<>>
        /\ RuleOf(fld.out.update[k]) # <<>>

\* the closed enumeration of abstract types
Taxonomy ==
  { "string", "text", "integer", "bigint", "bigInteger", "tinyInteger", "decimal",
    "float", "double", "boolean", "date", "datetime", "dateTime", "timestamp", "time",
    "json", "enum", "foreignId", "uuid" }

InTaxonomy(type) == Len(type) = 1 /\ type[1] \in Taxonomy

\* the input type inside an <input type="..." id="..." /> line
InputOf(line) == SubSeq(line, 2, IndexOfTok(line, "\" id=\""))

\* C13: when a generator has emitted its lines, every field whose type is
\* not in the taxonomy has the string column, the rule required|string|max:255
\* and the text input, in each kind of line the generator emits
C13_UnknownTypeIsString ==
  fld.pc = "done" =>
     \A k \in DOMAIN fld.fields :
        ~InTaxonomy(fld.fields[k].type) =>
           /\ fld.out.schema # <<>> =>
                 SubSeq(fld.out.schema[k], 1, 3) = << "$table->", "string", "('" >>
           /\ fld.out.create # <<>> =>
                 RuleOf(fld.out.create[k]) = << "required|string|max:255" >>
           /\ fld.out.input # <<>> => InputOf(fld.out.input[k]) = << "text" >>

\* the lookup tables a text generator consults for a field
TablesOf(gen) ==
  CASE gen = "spa" -> { SpaTypeMap, TypeRules, SpaInputMap }
    [] gen = "crud" -> { CrudTypes, CrudCasts, CrudInputTypes }
    [] OTHER -> {}

\* C14: when a generator has emitted its lines, every field whose type is in
\* the taxonomy has an entry of its own in each lookup table the generator
\* consulted, and each line emitted for it is non-empty
C14_TaxonomyIsTotal ==
  fld.pc = "done" =>
     \A k \in DOMAIN fld.fields :
        InTaxonomy(fld.fields[k].type) =>
           /\ \A map \in TablesOf(fld.gen) : fld.fields[k].type[1] \in DOMAIN map
           /\ \A kind \in DOMAIN fld.out :
                 fld.out[kind] # <<>> => fld.out[kind][k] # <<>>

\* C15: when a Vue/React CRUD generator has emitted its lines, every field
\* whose type is in the documented field-type table has the column type, the
\* (required) validation rule and the input type that the table lists
C15_DocumentedTypeTable ==
  fld.gen = "spa" /\ fld.pc = "done" =>
     \A k \in DOMAIN fld.fields :
        LET type == fld.fields[k].type
        IN  Len(type) = 1 /\ type[1] \in DOMAIN FieldTypesSupported =>
               /\ SubSeq(fld.out.schema[k], 1, 3) =
                    << "$table->", FieldTypesSupported[type[1]].migration, "('" >>
               /\ RuleOf(fld.out.create[k]) =
                    << "required|" \o FieldTypesSupported[type[1]].validation >>
               /\ InputOf(fld.out.input[k]) = << FieldTypesSupported[type[1]].input >>

\* the clauses field:type[:arg1[,arg2]] of a fields text, by the grammar of
\* the mini-language: a "," that is followed by a bare number and that follows
\* a clause with an argument separates arg1 from arg2, every other ","
\* separates two clauses
RECURSIVE Clauses(_, _)
Clauses(pieces, acc) ==
  IF pieces = <<>> THEN acc
  ELSE IF /\ acc # <<>>
          /\ Len(SplitOn(acc[Len(acc)], ":")) >= 3
          /\ Len(Trim(pieces[1])) = 1
          /\ Trim(pieces[1])[1] \in Numerals
    THEN Clauses(Tail(pieces),
                 [acc EXCEPT ![Len(acc)] = @ \o << "," >> \o pieces[1]])
    ELSE Clauses(Tail(pieces), Append(acc, Trim(pieces[1])))

Declared(text) == Clauses(SplitOn(text, ","), <<>>)

\* every clause of the text has a name and a type
WellFormed(text) ==
  \A k \in DOMAIN Declared(text) :
     LET parts == SplitOn(Declared(text)[k], ":")
     IN  Len(parts) >= 2 /\ parts[1] # <<>> /\ parts[2] # <<>>

\* a text generator has parsed its fields text
Parsed == fld.gen \in TextGenerators /\ fld.pc # "parse"

\* C16: a well-formed fields text is parsed into as many descriptors as it
\* declares fields, in the order of the clauses, each with the name and the
\* type of its clause
C16_ParserRoundTrip ==
  Parsed /\ WellFormed(fld.input) =>
     /\ Len(fld.fields) = Len(Declared(fld.input))
     /\ \A k \in DOMAIN fld.fields :
           /\ fld.fields[k].name = SplitOn(Declared(fld.input)[k], ":")[1]
           /\ fld.fields[k].type = SplitOn(Declared(fld.input)[k], ":")[2]

\* the text of a line
RECURSIVE Flat(_)
Flat(line) == IF line = <<>> THEN "" ELSE line[1] \o Flat(Tail(line))

\* C17: when a generator has emitted its lines for the text price:decimal:8,2,
\* the first line of each kind it emits is the one of the decimal field:
\* decimal('price', 8, 2), required|numeric, sometimes|required|numeric, number
C17_DecimalScenario ==
  fld.pc = "done" /\ fld.input = << "price", ":", "decimal", ":", "8", ",", "2" >> =>
     /\ fld.out.schema # <<>> =>
           Flat(fld.out.schema[1]) = "$table->decimal('price', 8, 2);"
     /\ fld.out.create # <<>> => Flat(RuleOf(fld.out.create[1])) = "required|numeric"
     /\ fld.out.update # <<>> =>
           Flat(RuleOf(fld.out.update[1])) = "sometimes|required|numeric"
     /\ fld.out.input # <<>> => Flat(InputOf(fld.out.input[1])) = "number"

\* the migration builder has built its descriptors, from a text or in the
\* interactive builder
Built18 == fld.gen \in { "manual", "builder" } /\ fld.pc \in { "emit.definitions", "done" }

\* the parts name, type, ... of the k-th clause of a fields text as
\* parseFieldsManual sees them
ManualParts(k) == SplitOn(Trim(SplitOn(fld.input, ",")[k]), ":")

\* neither precision nor scale was supplied for the k-th descriptor
NotSupplied(k) ==
  IF fld.gen = "builder" THEN Falsy(fld.precision) /\ Falsy(fld.scale)
  ELSE Len(ManualParts(k)) < 3 \/ ManualParts(k)[3] = <<>>

IsDecimal(k) == fld.fields[k].type = << "decimal" >>

\* C18 as stated: every decimal descriptor for which neither precision nor
\* scale was supplied has precision 8 and scale 2, whether it was parsed from
\* a text or built interactively
C18_DecimalDefaults ==
  Built18 =>
     \A k \in DOMAIN fld.fields :
        IsDecimal(k) /\ NotSupplied(k) =>
           fld.fields[k].precision = << "8" >> /\ fld.fields[k].scale = << "2" >>

\* C18, amended: the interactive builder gives a decimal descriptor the
\* precision 8 and the scale 2 where the user entered none; the text parser
\* leaves both unset when the clause has no third part, so that the column is
\* emitted without arguments, and gives the scale 2 when only a precision is
\* written
C18_DefaultsInBuilderOnly ==
  Built18 =>
     \A k \in DOMAIN fld.fields :
        IsDecimal(k) =>
           IF fld.gen = "builder"
             THEN /\ Falsy(fld.precision) => fld.fields[k].precision = << "8" >>
                  /\ Falsy(fld.scale) => fld.fields[k].scale = << "2" >>
             ELSE /\ NotSupplied(k) =>
                       /\ fld.fields[k].precision = Undefined
                       /\ fld.fields[k].scale = Undefined
                       /\ fld.pc = "done" =>
                            fld.out.schema[k] =
                              << "$table->", "decimal", "('" >> \o fld.fields[k].name \o
                              << "'", ")", ";" >>
                  /\ ~NotSupplied(k) /\ Len(ManualParts(k)) = 3 =>
                       fld.fields[k].scale = << "2" >>

\* a decimal column was emitted for a clause without precision and scale
C18_Witness ==
  /\ fld.gen = "manual"
  /\ fld.pc = "done"
  /\ \E k \in DOMAIN fld.fields : IsDecimal(k) /\ NotSupplied(k)

\* the place of each modifier call in the fixed order
Rank ==
  ( "->unsigned()" :> 1 ) @@ ( "->nullable()" :> 2 ) @@ ( "->unique()" :> 3 ) @@
  ( "->index()" :> 4 ) @@ ( "->default(" :> 5 ) @@ ( "->comment('" :> 6 ) @@
  ( "->constrained('" :> 7 ) @@ ( "->cascadeOnDelete()" :> 8 )

\* C19: in every emitted column definition the modifier calls stand in the
\* order unsigned, nullable, unique, index, default, comment, constrained,
\* cascadeOnDelete
C19_FixedModifierOrder ==
  fld.pc = "done" =>
     \A k \in DOMAIN fld.out.schema :
        LET line == fld.out.schema[k]
        IN  \A a, b \in DOMAIN line :
               a < b /\ line[a] \in DOMAIN Rank /\ line[b] \in DOMAIN Rank =>
                  Rank[line[a]] < Rank[line[b]]

\* a definition with two modifiers was emitted for a field whose modifiers
\* were ticked in another order than the fixed one
C19_Witness ==
  /\ fld.gen = "builder"
  /\ fld.pc = "done"
  /\ Len(fld.picked) >= 2
  /\ fld.picked[1] = "unique" /\ fld.picked[2] = "nullable"
  /\ \E a, b \in DOMAIN fld.out.schema[1] :
        fld.out.schema[1][a] = "->nullable()" /\ fld.out.schema[1][b] = "->unique()"

Has(line, tok) == \E a \in DOMAIN line : line[a] = tok

\* C20: every emitted definition of a foreignId column has a constrained(...)
\* call, and it has a cascadeOnDelete() call only if the user chose
\* "Cascade on delete"
C20_ForeignKeyConstrained ==
  fld.pc = "done" /\ fld.gen \in { "manual", "builder" } =>
     \A k \in DOMAIN fld.fields :
        fld.fields[k].type = << "foreignId" >> =>
           /\ Has(fld.out.schema[k], "->constrained('")
           /\ Has(fld.out.schema[k], "->cascadeOnDelete()") =>
                 fld.cascade = "Cascade on delete"

\* the lines of an up() that stand between the line that opens the table
\* closure and the line that closes it
RecordsOf(up) ==
  LET lines == SplitOn(up, NL)
  IN  SelectSeq(SubSeq(lines, 2, Len(lines) - 1), LAMBDA l : l # <<>>)

\* the name the k-th clause of a fields text declares
DeclaredName(text, k) == Trim(SplitOn(Declared(text)[k], ":")[1])

\* a column record for the column name
IsColumnRecord(line, name) ==
  /\ Len(line) >= 4 + Len(name)
  /\ line[1] = "$table->"
  /\ line[3] = "('"
  /\ SubSeq(line, 4, 3 + Len(name)) = name
  /\ line[4 + Len(name)] \in { "'", "');" }

\* the generator always writes the timestamps, or the user ticked them
WantsTimestamps ==
  fld.gen \in { "spa", "crud" } \/ (fld.asked = "answered" /\ "timestamps" \in fld.options)

\* a create-table migration was written for a fields text
CreatedFromText == fld.gen \in TextGenerators /\ fld.pc = "done"

\* C21: the up() of a create-table migration written for a fields text holds
\* the primary-key record, then one column record for each field the text
\* declares, in the order of the text, then the timestamps record unless the
\* user left the timestamps out, and nothing else
C21_OneRecordPerField ==
  CreatedFromText =>
     LET records == RecordsOf(fld.up)
         n == Len(Declared(fld.input))
     IN  /\ Len(records) = 1 + n + (IF WantsTimestamps THEN 1 ELSE 0)
         /\ Flat(records[1]) = "$table->id();"
         /\ \A k \in 1..n : IsColumnRecord(records[k + 1], DeclaredName(fld.input, k))
         /\ WantsTimestamps => Flat(records[Len(records)]) = "$table->timestamps();"

\* the tokens that open and that close a URL in a generated client or test
UrlOpeners == { "axios.get('", "axios.post('", "getJson('", "href=\"" }

UrlClosers == { "')", "', ", "\"" }

\* the URLs a generated text requests or links to
RequestedUrls(content) ==
  { Flat(SubSeq(content, q[1] + 1, q[2] - 1)) :
      q \in { p \in (DOMAIN content) \X (DOMAIN content) :
                /\ p[1] < p[2]
                /\ content[p[1]] \in UrlOpeners
                /\ content[p[2]] \in UrlClosers
                /\ \A c \in (p[1] + 1)..(p[2] - 1) : content[c] \notin UrlClosers } }

\* the URLs that the route registration of the generator of run r serves,
\* when the route files hold it: the collection of an API resource under /api
\* (and under the prefix of its group), the collection and the create page
\* of a web resource
ServedBy(r) ==
  LET kebab == Flat(toKebabCase(r.name))
      type == CrudRouteType(r.opt)
  IN  CASE r.cmd \in SpaCommands ->
             IF Includes(Content(ApiRoutesPath), SpaApiRouteLine(r.name))
               THEN { "/api/" \o kebab \o "s" } ELSE {}
        [] r.cmd = "generateAPI" ->
             IF Includes(Content(ApiRoutesPath), ApiRouteGroup(r.name, r.version))
               THEN { "/api" \o (IF r.version = "" THEN "" ELSE "/" \o r.version) \o
                      "/" \o kebab \o "s" }
               ELSE {}
        [] r.cmd = "generateCRUD" ->
             IF \/ Includes(Content(MainRouteFile(type)), RouteLine(r.name, type))
                \/ Includes(Content(CrudModularPath(r.name, r.opt)), RouteLine(r.name, type))
               THEN (IF type = "api" THEN { "/api/" \o kebab }
                     ELSE { "/" \o kebab, "/" \o kebab \o "/create" })
               ELSE {}
        [] OTHER -> {}

\* a generator has ended with its success message, and the route files hold
\* its registration of the entity
GeneratedAndServed(i) ==
  /\ run[i].pc = "done"
  /\ "success" \in run[i].msgs
  /\ ServedBy(run[i]) # {}

\* C22: when a generator has ended with its success message and the route
\* files hold its registration of the entity, every URL that a file written by
\* this generation requests or links to is one of the URLs that registration
\* serves
C22_OneRouteSegment ==
  \A i \in Slots :
     GeneratedAndServed(i) =>
        \A p \in run[i].wrote :
           Exists(p) => RequestedUrls(fs[p]) \subseteq ServedBy(run[i])

\* a generator has written its form
FormEmitted == fld.pc = "done" /\ fld.out.input # <<>>

\* C23: the input type in every form line that a generator has written, for
\* Vue, React or Blade, is the one that each of the two decision functions
\* (crud-spa.js getInputType, views.js getInputType) gives for the type of the
\* field: the targets agree on every field type
C23_OneWidgetDecision ==
  FormEmitted =>
     \A k \in DOMAIN fld.fields :
        /\ InputOf(fld.out.input[k]) = getInputType(fld.fields[k].type)
        /\ InputOf(fld.out.input[k]) = CrudInputType(fld.fields[k].type)

\* the body of up() in a migration file
UpOf(content) ==
  SubSeq(content, IndexOfTok(content, "public function up(): void") + 5,
         IndexOfTok(content, "public function down(): void") - 3)

\* the schema call that a migration of the given type makes on its table
SchemaCall(type) ==
  CASE type = "create" -> "Schema::create('"
    [] type = "drop" -> "Schema::dropIfExists('"
    [] OTHER -> "Schema::table('"

\* up makes the schema call of the type on the table and has a call that
\* names each of the columns
Performs(type, tableName, fields, up) ==
  /\ \/ Includes(up, << SchemaCall(type) >> \o tableName \o
                        << "', function (Blueprint $table) {" >>)
     \/ Includes(up, << SchemaCall(type) >> \o tableName \o << "');" >>)
  /\ \A k \in DOMAIN fields :
        fields[k].type # << "special" >> =>
           Includes(up, << "('" >> \o fields[k].name \o << "'" >>)

\* C24: when the migration builder has ended with its success message, the
\* up() of the file it wrote makes the schema call of the chosen migration
\* type on the chosen table and names every column the user entered
C24_UpPerformsTheType ==
  \A i \in Slots :
     /\ run[i].cmd = "generateMigration"
     /\ run[i].pc = "done"
     /\ "success" \in run[i].msgs
     => \A p \in run[i].wrote :
           Performs(run[i].opt, run[i].name, run[i].fields, UpOf(fs[p]))

\* the components the documentation lists for an API type
DocumentedComponents(type) ==
  CASE type = "complete" ->
         { "model", "migration", "controller", "resource", "collection", "requests",
           "policy", "tests", "routes" }
    [] type = "basic" -> { "model", "controller", "routes" }
    [] OTHER -> {}

\* component c of the entity of run r is in the workspace; a migration is a
\* new file of every run, so it is looked for among the files r wrote
Produced(r, c) ==
  CASE c = "model" -> Exists(SpaModelPath(r.name))
    [] c = "migration" -> \E p \in r.wrote : p[1] = "database/migrations/"
    [] c = "controller" -> Exists(ApiControllerPath(r.name, r.version))
    [] c = "resource" -> Exists(ApiResourcePath(r.name, r.version))
    [] c = "collection" -> Exists(ApiCollectionPath(r.name, r.version))
    [] c = "requests" ->
         Exists(SpaRequestPath("Store", r.name)) /\ Exists(SpaRequestPath("Update", r.name))
    [] c = "policy" -> Exists(ApiPolicyPath(r.name))
    [] c = "tests" -> Exists(ApiTestPath(r.name))
    [] c = "routes" -> Includes(Content(ApiRoutesPath), r.name \o << " API Routes" >>)
    [] OTHER -> FALSE

\* the API generator has ended with its success message, no step of it has
\* failed and routes/api.php is there to register in
ApiGenerated(i) ==
  /\ IsApi(i)
  /\ run[i].pc = "done"
  /\ "success" \in run[i].msgs
  /\ run[i].failed = {}
  /\ Exists(ApiRoutesPath)

\* C25: when the API generator has ended successfully for the Complete or
\* the Basic API type, every component the documentation lists for that type
\* is in the workspace
C25_DocumentedComponentSet ==
  \A i \in Slots :
     ApiGenerated(i) =>
        \A c \in DocumentedComponents(run[i].opt) : Produced(run[i], c)

\* the first line of the registration block of entity name in routes/api.php,
\* router.js and router.jsx
ApiBlockHeader(name) == << "// " >> \o name \o << " API Routes", NL >>

VueBlockHeader(name) == << "    // " >> \o name \o << " Routes" >>

ReactBlockHeader(name) == << "{/* " >> \o name \o << " Routes", " */}" >>

\* run i has ended, and its registration step ran without a failure
Registered(i, step) ==
  /\ run[i].pc = "done"
  /\ step \in run[i].attempted
  /\ step \notin run[i].failed

\* C26: after a generator has run its registration for an entity, the shared
\* route file and the frontend router hold exactly one registration block of
\* that entity, whatever other entities were registered before
C26_OneBlockPerEntity ==
  \A i \in Slots :
     /\ ( /\ \/ IsSpa(i) /\ Registered(i, "apiRoutes")
             \/ IsApi(i) /\ Registered(i, "routes")
          /\ Exists(ApiRoutesPath) )
        => CountOcc(Content(ApiRoutesPath), ApiBlockHeader(run[i].name)) = 1
     /\ ( /\ IsVue(i) /\ Registered(i, "clientRoutes")
          /\ RoutesArrayMatch(Content(VueRouterPath)) )
        => CountOcc(Content(VueRouterPath), VueBlockHeader(run[i].name)) = 1
     /\ ( /\ run[i].cmd = "generateReactCRUD" /\ Registered(i, "clientRoutes")
          /\ RoutesElementMatch(Content(ReactRouterPath)) )
        => CountOcc(Content(ReactRouterPath), ReactBlockHeader(run[i].name)) = 1

\* the commands of routes.js, one at a time.  A command callback that is not
\* waiting for the user runs on to its next await or to its end, and the user
\* of the claim answers every prompt that is shown: the steps of both
\* commands are weakly fair
RouteCommands == { "generateRouteFile", "generateResourceRoutes" }

NextRoutes ==
  \/ Tick
  \/ \E c \in RouteCommands : Alone(1) /\ Start(1, c, MaxRuns)
  \/ RouteFileStep(1)
  \/ ResourceStep(1)

SpecRoutes ==
  Init /\ [][NextRoutes]_vars /\ WF_vars(RouteFileStep(1)) /\ WF_vars(ResourceStep(1))

\* the end the claim describes for run r of Generate Route File: the module
\* route file is there, both registration steps ran and a final message, the
\* success or the error message, was shown
RouteFileCompleted(r) ==
  /\ Exists(ModuleRoutePath(r.name, r.opt))
  /\ { "provider", "require" } \subseteq r.attempted
  /\ r.msgs \cap { "success", "error" } # {}

\* C27: a Generate Route File command whose prompts are all answered (none
\* dismissed, at least one route selected) eventually ends with the module
\* route file written, the two registration steps run and its success or
\* its error message shown
C27_RouteFileEventuallyWritten ==
  (run[1].cmd = "generateRouteFile" /\ run[1].pc = "routeFile.moduleName")
     ~> ( /\ run[1].cmd = "generateRouteFile"
          /\ run[1].pc = "done"
          /\ \/ run[1].dismissed
             \/ run[1].comps = {}
             \/ RouteFileCompleted(run[1]) )

\* the per-artifact files run r of a generator was asked to produce
ApiAskedFiles(r) ==
  (IF "model" \in r.comps THEN { SpaModelPath(r.name) } ELSE {}) \cup
  (IF "controller" \in r.comps THEN { ApiControllerPath(r.name, r.version) } ELSE {}) \cup
  (IF "resource" \in r.comps THEN { ApiResourcePath(r.name, r.version) } ELSE {}) \cup
  (IF "collection" \in r.comps THEN { ApiCollectionPath(r.name, r.version) } ELSE {}) \cup
  (IF "requests" \in r.comps
     THEN { SpaRequestPath("Store", r.name), SpaRequestPath("Update", r.name) } ELSE {}) \cup
  (IF "tests" \in r.comps THEN { ApiTestPath(r.name) } ELSE {}) \cup
  (IF "policy" \in r.comps THEN { ApiPolicyPath(r.name) } ELSE {})

AskedFiles(r) ==
  CASE r.cmd \in SpaCommands -> { a[1] : a \in SpaArtifacts(r) }
    [] r.cmd = "generateAPI" -> ApiAskedFiles(r)
    [] r.cmd = "generateCRUD" -> { SpaModelPath(r.name), CrudControllerPath(r.name) }
    [] OTHER -> {}

\* the registrations run r was asked for are in the shared files
AskedRegistrations(r) ==
  CASE r.cmd \in SpaCommands ->
         /\ Includes(Content(ApiRoutesPath), ApiBlockHeader(r.name))
         /\ IF r.cmd = "generateVueCRUD"
              THEN Includes(Content(VueRouterPath), VueBlockHeader(r.name))
              ELSE Includes(Content(ReactRouterPath), ReactBlockHeader(r.name))
    [] r.cmd = "generateAPI" ->
         "routes" \in r.comps => Includes(Content(ApiRoutesPath), ApiBlockHeader(r.name))
    [] r.cmd = "generateCRUD" ->
         \E p \in { MainRouteFile(CrudRouteType(r.opt)), CrudModularPath(r.name, r.opt) } :
            Includes(Content(p), RouteLine(r.name, CrudRouteType(r.opt)))
    [] OTHER -> TRUE

GeneratorCommands == SpaCommands \cup { "generateAPI", "generateCRUD" }

\* C28: a generator run that has shown its success message has had no failed
\* step, has written every per-artifact file it was asked for during the run
\* and has its registrations in the shared files
C28_SuccessMeansAllProduced ==
  \A i \in Slots :
     (run[i].cmd \in GeneratorCommands /\ "success" \in run[i].msgs) =>
        /\ run[i].failed = {}
        /\ AskedFiles(run[i]) \subseteq run[i].wrote
        /\ AskedRegistrations(run[i])

\* C29: a command that has called executeArtisanCommand once has had its
\* artisan command line executed exactly once
C29_ExecutedExactlyOnce ==
  \A i \in Slots :
     (run[i].cmd \in ArtisanCommands /\ run[i].ran # <<>>) => run[i].execs = 1

\* C30: in a builder loop no prompt is shown after one was dismissed (the
\* loop has returned), and the entries a loop returns are exactly the entries
\* that were specified in full, no prompt having been dismissed until their
\* last one, in the order they were entered
C30_LoopEndsOnDismissal ==
  fld.gen \in LoopGenerators =>
     /\ fld.dismissed => fld.pc = "returned"
     /\ fld.pc = "returned" => fld.fields = fld.specified

====
